---- MODULE Spec2Model ----
(***************************************************************************)
(* Model of the invoice processor's document pipeline                      *)
(* (src/src/invoice_processor): the batch coordinator                      *)
(* (process_multiple_invoices), the document task                          *)
(* (process_single_invoice), the vendor registry store and reconciler      *)
(* (config.py) and the sanitizer (utils.py).                               *)
(*                                                                         *)
(* Strings are sequences of one-character strings, so that the string      *)
(* functions of the program (replace, strip, lower, title) are computed    *)
(* character by character as Python computes them.                         *)
(*                                                                         *)
(* Scheduling: the tasks of a batch are asyncio tasks of one event loop.   *)
(* A task gives up control where it waits for the semaphore, for the       *)
(* gather of its two inference calls and for the lock; the steps of a      *)
(* registry cycle (load, reconcile, save) are separate actions taken       *)
(* while the lock is held, so the exclusion they enjoy is the lock's.      *)
(***************************************************************************)
EXTENDS Integers, Sequences, FiniteSets, TLC

(***************************************************************************)
(* Bounds of the model.                                                    *)
(***************************************************************************)
\* number of documents of the batch (len(file_paths))
NumDocs == 2
\* max_concurrent is drawn from 0..MaxConcurrentBound
MaxConcurrentBound == 2

Docs == 1..NumDocs

(***************************************************************************)
(* Strings.                                                                *)
(***************************************************************************)
\* the lower-case letter of every upper-case ASCII letter
ToLower ==
    ("A" :> "a") @@ ("B" :> "b") @@ ("C" :> "c") @@ ("D" :> "d") @@ ("E" :> "e") @@ ("F" :> "f") @@
    ("G" :> "g") @@ ("H" :> "h") @@ ("I" :> "i") @@ ("J" :> "j") @@ ("K" :> "k") @@ ("L" :> "l") @@
    ("M" :> "m") @@ ("N" :> "n") @@ ("O" :> "o") @@ ("P" :> "p") @@ ("Q" :> "q") @@ ("R" :> "r") @@
    ("S" :> "s") @@ ("T" :> "t") @@ ("U" :> "u") @@ ("V" :> "v") @@ ("W" :> "w") @@ ("X" :> "x") @@
    ("Y" :> "y") @@ ("Z" :> "z")

\* the upper-case letter of every lower-case ASCII letter
ToUpper ==
    ("a" :> "A") @@ ("b" :> "B") @@ ("c" :> "C") @@ ("d" :> "D") @@ ("e" :> "E") @@ ("f" :> "F") @@
    ("g" :> "G") @@ ("h" :> "H") @@ ("i" :> "I") @@ ("j" :> "J") @@ ("k" :> "K") @@ ("l" :> "L") @@
    ("m" :> "M") @@ ("n" :> "N") @@ ("o" :> "O") @@ ("p" :> "P") @@ ("q" :> "Q") @@ ("r" :> "R") @@
    ("s" :> "S") @@ ("t" :> "T") @@ ("u" :> "U") @@ ("v" :> "V") @@ ("w" :> "W") @@ ("x" :> "X") @@
    ("y" :> "Y") @@ ("z" :> "Z")

\* str.lower() on one character
LowerChar(c) == IF c \in DOMAIN ToLower THEN ToLower[c] ELSE c

\* str.upper() on one character
UpperChar(c) == IF c \in DOMAIN ToUpper THEN ToUpper[c] ELSE c

\* a cased character (a letter)
IsCased(c) == c \in DOMAIN ToLower \/ c \in DOMAIN ToUpper

\* str.lower()
Lower(s) == [i \in 1..Len(s) |-> LowerChar(s[i])]

\* str.title(): a letter is upper-cased when the character before it is not
\* a letter, lower-cased otherwise; other characters are kept
Title(s) ==
    [i \in 1..Len(s) |->
        IF i > 1 /\ IsCased(s[i - 1]) THEN LowerChar(s[i]) ELSE UpperChar(s[i])]

\* str.replace(old, new) for single characters
ReplaceChar(s, old, new) == [i \in 1..Len(s) |-> IF s[i] = old THEN new ELSE s[i]]

\* invalid_chars of sanitize_filename_part
invalid_chars == {"<", ">", ":", "\"", "|", "?", "*"}

\* the characters str.strip('._ ') removes from both ends
strip_chars == {".", "_", " "}

\* str.strip(chars)
Strip(s, chars) ==
    LET keep == {i \in 1..Len(s) : s[i] \notin chars}
    IN  IF keep = {} THEN <<>>
        ELSE LET lo == CHOOSE i \in keep : \A j \in keep : i <= j
                 hi == CHOOSE i \in keep : \A j \in keep : j <= i
             IN  SubSeq(s, lo, hi)

\* a sanitizer that strips the ends before it replaces and removes
sanitize_strip_first(part) ==
    LET stripped == Strip(part, strip_chars)
        replaced == ReplaceChar(ReplaceChar(ReplaceChar(stripped, "/", "_"), "\\", "_"), " ", "_")
    IN  SelectSeq(replaced, LAMBDA c : c \notin invalid_chars)

\* utils.sanitize_filename_part
sanitize_filename_part(part) ==
    LET replaced == ReplaceChar(ReplaceChar(ReplaceChar(part, "/", "_"), "\\", "_"), " ", "_")
        sanitized_part == SelectSeq(replaced, LAMBDA c : c \notin invalid_chars)
    IN  Strip(sanitized_part, strip_chars)

\* the primary key derived from a normalized name (config.py, lines 74 and 99)
simplified_name(normalized_name) ==
    Title(ReplaceChar(sanitize_filename_part(normalized_name), "_", " "))

(***************************************************************************)
(* Folder listing (utils.py).  A file name stands for its path: all paths  *)
(* of a folder share the prefix os.path.join puts before the name.         *)
(***************************************************************************)
\* code points of the characters of the file names
Ord ==
    ("." :> 46) @@ ("B" :> 66) @@ ("D" :> 68) @@ ("F" :> 70) @@ ("P" :> 80) @@ ("a" :> 97)
        @@ ("b" :> 98) @@ ("d" :> 100) @@ ("f" :> 102) @@ ("p" :> 112)

RECURSIVE StrLess(_, _)
\* a < b for Python strings: the first differing character decides, a proper
\* prefix is smaller
StrLess(a, b) ==
    IF a = <<>> THEN b # <<>>
    ELSE IF b = <<>> THEN FALSE
    ELSE IF Head(a) = Head(b) THEN StrLess(Tail(a), Tail(b))
    ELSE Ord[Head(a)] < Ord[Head(b)]

\* str.endswith
EndsWith(s, suffix) ==
    Len(s) >= Len(suffix) /\ SubSeq(s, Len(s) - Len(suffix) + 1, Len(s)) = suffix

\* the filter of get_pdf_files
IsPdfName(filename) == EndsWith(Lower(filename), <<".", "p", "d", "f">>)

\* a listing filtered in the order os.listdir gave
get_pdf_files_unsorted(listing) == SelectSeq(listing, IsPdfName)

\* utils.get_pdf_files of a directory whose os.listdir is listing
get_pdf_files(listing) == SelectSeq(SortSeq(listing, StrLess), IsPdfName)

(***************************************************************************)
(* Vendor registry: a sequence of records [name, aliases].                 *)
(***************************************************************************)
\* config.find_vendor_by_name: the index of the first record whose name is
\* the simplified name, 0 when there is none
find_vendor_by_name(vendors, normalized_name) ==
    LET hits == {i \in 1..Len(vendors) : vendors[i].name = simplified_name(normalized_name)}
    IN  IF hits = {} THEN 0 ELSE CHOOSE i \in hits : \A j \in hits : i <= j

\* membership of a string in a list of strings
InSeq(x, s) == \E i \in 1..Len(s) : s[i] = x

\* a reconciler with one slip: "raw_compare" looks the raw name up among the
\* lower-cased aliases without lower-casing it, "always_seed" gives every new
\* record its raw name as alias, "store_lower" stores the alias lower-cased
ReconcileWith(vendors, raw_name, normalized_name, slip) ==
    LET key == simplified_name(normalized_name)
        g == find_vendor_by_name(vendors, normalized_name)
        looked_up == IF slip = "raw_compare" THEN raw_name ELSE Lower(raw_name)
        stored == IF slip = "store_lower" THEN Lower(raw_name) ELSE raw_name
    IN  IF g # 0
        THEN LET existing_aliases == [i \in 1..Len(vendors[g].aliases) |-> Lower(vendors[g].aliases[i])]
             IN  IF ~InSeq(looked_up, existing_aliases) /\ Lower(raw_name) # Lower(key)
                 THEN [vendors |-> [vendors EXCEPT ![g].aliases = Append(@, stored)],
                       was_modified |-> TRUE]
                 ELSE [vendors |-> vendors, was_modified |-> FALSE]
        ELSE LET new_vendor == [name |-> key,
                                aliases |-> IF Lower(raw_name) # Lower(key) \/ slip = "always_seed"
                                            THEN <<stored>> ELSE <<>>]
             IN  [vendors |-> IF slip = "prepend" THEN <<new_vendor>> \o vendors
                              ELSE Append(vendors, new_vendor),
                  was_modified |-> TRUE]

add_or_update_raw_compare(vendors, raw_name, normalized_name) ==
    ReconcileWith(vendors, raw_name, normalized_name, "raw_compare")

add_or_update_always_seed(vendors, raw_name, normalized_name) ==
    ReconcileWith(vendors, raw_name, normalized_name, "always_seed")

add_or_update_store_lower(vendors, raw_name, normalized_name) ==
    ReconcileWith(vendors, raw_name, normalized_name, "store_lower")

add_or_update_prepend(vendors, raw_name, normalized_name) ==
    ReconcileWith(vendors, raw_name, normalized_name, "prepend")

\* config.add_or_update_vendor_alias: [vendors, was_modified]
add_or_update_vendor_alias(vendors, raw_name, normalized_name) ==
    LET key == simplified_name(normalized_name)
        g == find_vendor_by_name(vendors, normalized_name)
    IN  IF g # 0
        THEN LET existing_aliases == [i \in 1..Len(vendors[g].aliases) |-> Lower(vendors[g].aliases[i])]
             IN  IF ~InSeq(Lower(raw_name), existing_aliases) /\ Lower(raw_name) # Lower(key)
                 THEN [vendors |-> [vendors EXCEPT ![g].aliases = Append(@, raw_name)],
                       was_modified |-> TRUE]
                 ELSE [vendors |-> vendors, was_modified |-> FALSE]
        ELSE [vendors |-> Append(vendors,
                  [name |-> key,
                   aliases |-> IF Lower(raw_name) # Lower(key) THEN <<raw_name>> ELSE <<>>]),
              was_modified |-> TRUE]

(***************************************************************************)
(* Filename synthesis (models.py).  Amounts are kept in hundredths, a date *)
(* is a record [year, month, day].                                         *)
(***************************************************************************)
\* one decimal digit as a character
DigitChar(n) ==
    CASE n = 0 -> "0" [] n = 1 -> "1" [] n = 2 -> "2" [] n = 3 -> "3" [] n = 4 -> "4"
      [] n = 5 -> "5" [] n = 6 -> "6" [] n = 7 -> "7" [] n = 8 -> "8" [] n = 9 -> "9"

RECURSIVE Decimal(_)
\* str(n) for a natural number
Decimal(n) == IF n < 10 THEN <<DigitChar(n)>> ELSE Append(Decimal(n \div 10), DigitChar(n % 10))

\* a natural number zero-padded to two digits (%m, %d, the .2f fraction)
TwoDigits(n) == <<DigitChar((n \div 10) % 10), DigitChar(n % 10)>>

\* date.strftime("%Y%m%d")
strftime(d) ==
    <<DigitChar((d.year \div 1000) % 10), DigitChar((d.year \div 100) % 10)>>
        \o TwoDigits(d.year % 100) \o TwoDigits(d.month) \o TwoDigits(d.day)

\* f"{amount:.2f}" of an amount given in hundredths
Fixed2(hundredths) == Decimal(hundredths \div 100) \o <<".">> \o TwoDigits(hundredths % 100)

\* a filename whose vendor part is the registry key of the vendor
to_filename_key_vendor(inv) ==
    simplified_name(inv.vendor) \o <<"-">> \o strftime(inv.invoice_date) \o <<"-">>
        \o Decimal(inv.item_count) \o <<"-">> \o sanitize_filename_part(inv.item_category)
        \o <<"-">> \o Fixed2(inv.total_amount) \o <<"-">> \o Fixed2(inv.total_vat)
        \o <<".", "p", "d", "f">>

\* a filename made of the vendor as it was extracted
to_filename_raw_vendor(inv) ==
    inv.vendor \o <<"-">> \o strftime(inv.invoice_date) \o <<"-">>
        \o Decimal(inv.item_count) \o <<"-">> \o sanitize_filename_part(inv.item_category)
        \o <<"-">> \o Fixed2(inv.total_amount) \o <<"-">> \o Fixed2(inv.total_vat)
        \o <<".", "p", "d", "f">>

\* InvoiceDetails.to_filename
to_filename(inv) ==
    sanitize_filename_part(inv.vendor) \o <<"-">> \o strftime(inv.invoice_date) \o <<"-">>
        \o Decimal(inv.item_count) \o <<"-">> \o sanitize_filename_part(inv.item_category)
        \o <<"-">> \o Fixed2(inv.total_amount) \o <<"-">> \o Fixed2(inv.total_vat)
        \o <<".", "p", "d", "f">>

(***************************************************************************)
(* The batch: process_multiple_invoices over file_paths = <<1, .., NumDocs>>*)
(* (task d processes file_paths[d]).                                       *)
(***************************************************************************)
VARIABLES
    max_concurrent,     \* the argument max_concurrent
    vendor_override,    \* InvoiceProcessor.vendor_override (<<>> when not configured)
    move_file,          \* the argument move_files
    in_output,          \* whether the files of file_paths lie in output_dir
    next_task,          \* number of tasks that have taken their first step
    sem_value,          \* asyncio.Semaphore._value
    sem_waiters,        \* asyncio.Semaphore._waiters (FIFO)
    lock_holder,        \* the task holding context.lock, 0 when it is free
    lock_waiters,       \* asyncio.Lock._waiters (FIFO)
    pc,                 \* position of each task
    text,               \* text_content of each task
    norm_call,          \* normalized_agent.run of each task
    raw_call,           \* raw_agent.run of each task
    ai_detected_vendor, \* the local ai_detected_vendor of each task
    vendor,             \* normalized_result.output.vendor of each task
    upd,                \* the arguments of the running _update_vendor_config call
    vendors_data,       \* the local vendors_data of each task's registry cycle
    vendors_file,       \* content of the vendors file
    save_failed,        \* some save_vendors_data could not write (history)
    source_present,     \* whether the source file of each document exists
    out_dir,            \* the output directory
    task_outcome,       \* what each task returned to gather
    completion,         \* the tasks in the order they finished
    returned,           \* what process_multiple_invoices returned
    reg_writes,         \* number of writes each task made to the vendors file (history)
    failure,            \* the stage at which each failed task failed (history)
    transfers,          \* the tasks whose source file was moved or copied (history)
    rec_vendors,        \* the vendors list a sequence of reconciler calls works on
    rec_call,           \* the last add_or_update_vendor_alias call of that sequence
    san,                \* a string and what sanitize_filename_part made of it
    named,              \* an InvoiceDetails and what to_filename made of it
    pdf_files,          \* the local pdf_files of the CLI's folder mode (<<>> before the listing)
    app                 \* the run of the program: its arguments and how far CLIInterface.run got

vars == <<max_concurrent, vendor_override, move_file, in_output, next_task, sem_value, sem_waiters,
          lock_holder, lock_waiters, pc, text, norm_call, raw_call, ai_detected_vendor,
          vendor, upd, vendors_data, vendors_file, save_failed, source_present, out_dir,
          task_outcome, completion, returned, reg_writes, failure, transfers,
          rec_vendors, rec_call, san, named, pdf_files, app>>

\* vendor strings the inference backend answers with
V_ab == <<"a", "b">>
V_x == <<"x">>
\* a verbatim vendor name particular to document d: "a b", "a bb", ...
DocRawName(d) == <<"a", " ">> \o [i \in 1..d |-> "b"]

NormVendors == {V_ab, V_x}
RawVendors(d) == {DocRawName(d), V_x}
Overrides == {<<>>, V_ab}

\* the documents a path may hold: unreadable, without pages, one page without
\* text, one page with text
PdfDocs ==
    {[readable |-> FALSE, pages |-> <<>>],
     [readable |-> TRUE, pages |-> <<>>],
     [readable |-> TRUE, pages |-> << <<>> >>],
     [readable |-> TRUE, pages |-> << <<"t">> >>]}

RECURSIVE JoinPages(_)
\* "".join(page.extract_text() + "\n" for page in reader.pages)
JoinPages(pages) ==
    IF pages = <<>> THEN <<>> ELSE Head(pages) \o <<"\n">> \o JoinPages(Tail(pages))

\* InvoiceProcessor._extract_pdf_text
ExtractPdfText(doc) == IF doc.readable THEN JoinPages(doc.pages) ELSE <<>>

\* the test "not text_content" of process_single_invoice
NoText(text_content) == text_content = <<>>

\* the state of an inference call and of its settled results
CallIdle == [st |-> "idle", kind |-> "-", vendor |-> <<>>]
CallPending == [st |-> "pending", kind |-> "-", vendor |-> <<>>]
CallRaised == [st |-> "raised", kind |-> "-", vendor |-> <<>>]
\* a falsy result (None)
CallNone == [st |-> "returned", kind |-> "none", vendor |-> <<>>]
\* a result whose output is missing
CallNoPayload == [st |-> "returned", kind |-> "nopayload", vendor |-> <<>>]
CallOk(v) == [st |-> "returned", kind |-> "ok", vendor |-> v]

NormOutcomes == {CallRaised, CallNone, CallNoPayload} \cup {CallOk(v) : v \in NormVendors}
RawOutcomes(d) == {CallRaised, CallNone, CallNoPayload} \cup {CallOk(v) : v \in RawVendors(d)}

\* values a task hands to gather
NoneValue == [kind |-> "value", ok |-> FALSE, name |-> <<>>]
Filename(n) == [kind |-> "value", ok |-> TRUE, name |-> n]
Raised == [kind |-> "exception", ok |-> FALSE, name |-> <<>>]
NotFinished == [kind |-> "running", ok |-> FALSE, name |-> <<>>]

\* an exception that is not caught at the task boundary
ExceptionPropagates == Raised

\* the except clause of process_single_invoice: the exception is logged and
\* None is returned
ExceptionOutcome == NoneValue

\* the content of the vendors file
FileAbsent == [kind |-> "absent", vendors |-> <<>>]
FileMalformed == [kind |-> "malformed", vendors |-> <<>>]
FileUnparsable == [kind |-> "unparsable", vendors |-> <<>>]
\* a mapping with a vendors list whose first entry is not a mapping: the
\* load returns it and every lookup in it raises; its entries are not
\* represented
FileIllTyped == [kind |-> "ill_typed", vendors |-> <<>>]
FileValid(v) == [kind |-> "valid", vendors |-> v]

SaveOutcomes == {"ok", "open_fails", "write_fails"}

\* config.save_vendors_data: the file after the call; open(filepath, 'w')
\* truncates the file before yaml.dump writes it
save_vendors_data(data, file, outcome) ==
    CASE outcome = "ok" -> FileValid(data)
      [] outcome = "open_fails" -> file
      [] outcome = "write_fails" -> FileMalformed

\* the fixed fields of the invoices of the batch
Details(v) ==
    [vendor |-> v, invoice_date |-> [year |-> 2024, month |-> 3, day |-> 5],
     item_count |-> 3, item_category |-> <<"b">>, total_amount |-> 4250, total_vat |-> 210]

NoUpd == [raw_name |-> <<>>, normalized_name |-> <<>>, call |-> 0]

\* no string was sanitized
NoSan == [stage |-> 0, part |-> <<>>, once |-> <<>>, twice |-> <<>>]

\* no filename was made
NoName == [done |-> FALSE, inv |-> <<>>, filename |-> <<>>]

\* no run of the command line is looked at
NoApp == [st |-> "none", tui |-> FALSE, folder |-> "dir", vendor_override |-> <<>>]

\* no reconciler call was made yet
NoPrev == [raw_name |-> <<>>, normalized_name |-> <<>>, before |-> <<>>, was_modified |-> FALSE]
NoCall == [n |-> 0, raw_name |-> <<>>, normalized_name |-> <<>>, before |-> <<>>,
           was_modified |-> FALSE, origin |-> <<>>, prev |-> NoPrev]

\* the file name of file_paths[d] when the files lie in output_dir: the first
\* has the name an earlier run gave it, the others names no run gives
Basename(d) ==
    IF d = 1 THEN to_filename(Details(V_ab)) ELSE [i \in 1..d |-> "i"] \o <<".", "p", "d", "f">>

\* the state before process_multiple_invoices is called, with the files in
\* output_dir (in_place) or elsewhere
BatchInit(in_place) ==
    /\ max_concurrent \in 0..MaxConcurrentBound
    /\ vendor_override \in Overrides
    /\ move_file \in BOOLEAN
    /\ in_output = in_place
    /\ next_task = 0
    /\ sem_value = max_concurrent
    /\ sem_waiters = <<>>
    /\ lock_holder = 0
    /\ lock_waiters = <<>>
    /\ pc = [d \in Docs |-> "queued"]
    /\ text = [d \in Docs |-> <<>>]
    /\ norm_call = [d \in Docs |-> CallIdle]
    /\ raw_call = [d \in Docs |-> CallIdle]
    /\ ai_detected_vendor = [d \in Docs |-> <<>>]
    /\ vendor = [d \in Docs |-> <<>>]
    /\ upd = [d \in Docs |-> NoUpd]
    /\ vendors_data = [d \in Docs |-> <<>>]
    /\ vendors_file \in {FileAbsent, FileMalformed, FileUnparsable, FileIllTyped}
    /\ save_failed = FALSE
    /\ source_present = [d \in Docs |-> TRUE]
    /\ out_dir = IF in_place
                 THEN [exists |-> TRUE,
                       files |-> {[name |-> Basename(d), content |-> d] : d \in Docs}]
                 ELSE [exists |-> FALSE, files |-> {}]
    /\ task_outcome = [d \in Docs |-> NotFinished]
    /\ completion = <<>>
    /\ returned = [done |-> FALSE, raised |-> FALSE, results |-> <<>>]
    /\ reg_writes = [d \in Docs |-> 0]
    /\ failure = [d \in Docs |-> "none"]
    /\ transfers = {}
    /\ rec_vendors = <<>>
    /\ rec_call = NoCall
    /\ san = NoSan
    /\ named = NoName
    /\ pdf_files = <<>>

\* process_multiple_invoices called on a processor, whatever constructed it
InitIn(in_place) == BatchInit(in_place) /\ app = NoApp

\* the files of the batch lie outside output_dir, which does not exist yet
Init == InitIn(FALSE)

(***************************************************************************)
(* Steps of a task.                                                        *)
(***************************************************************************)
\* the functions run on their own and the folder listing (not part of a
\* batch)
unit == <<rec_vendors, rec_call, san, named, pdf_files, app>>
cfg == <<max_concurrent, vendor_override, move_file, in_output, unit>>
sem == <<next_task, sem_value, sem_waiters>>
lock == <<lock_holder, lock_waiters>>
calls == <<norm_call, raw_call>>
locals == <<ai_detected_vendor, vendor, upd, vendors_data>>
store == <<vendors_file, save_failed, reg_writes>>
files == <<source_present, out_dir, transfers>>
batch == <<task_outcome, completion, failure, returned>>

\* the task returns out to gather and leaves "async with semaphore";
\* its locals are discarded
Finish(d, st, out, why) ==
    /\ pc' = [pc EXCEPT ![d] = st]
    /\ failure' = [failure EXCEPT ![d] = why]
    /\ task_outcome' = [task_outcome EXCEPT ![d] = out]
    /\ completion' = Append(completion, d)
    /\ ai_detected_vendor' = [ai_detected_vendor EXCEPT ![d] = <<>>]
    /\ vendor' = [vendor EXCEPT ![d] = <<>>]
    /\ upd' = [upd EXCEPT ![d] = NoUpd]

\* a semaphore that never holds a task back
SemNeverLocked == FALSE

\* asyncio.Semaphore.locked()
SemLocked == sem_value = 0 \/ sem_waiters # <<>>

\* the task has its slot: process_single_invoice runs up to its first
\* suspension, through the text extraction
Enter(d) ==
    \E doc \in PdfDocs :
        LET text_content == ExtractPdfText(doc)
        IN  IF NoText(text_content)
            THEN /\ Finish(d, "failed", NoneValue, "no_text")
                 /\ UNCHANGED <<sem_value, text>>
            ELSE /\ pc' = [pc EXCEPT ![d] = "text_extracted"]
                 /\ text' = [text EXCEPT ![d] = text_content]
                 /\ sem_value' = sem_value - 1
                 /\ UNCHANGED <<task_outcome, completion, failure, ai_detected_vendor, vendor,
                                upd>>

\* first step of task d: gather starts the tasks in the order of file_paths;
\* "async with semaphore" takes a slot or queues the task
TaskStart(d) ==
    /\ pc[d] = "queued"
    /\ d = next_task + 1
    /\ next_task' = d
    /\ IF ~SemLocked
       THEN Enter(d) /\ UNCHANGED sem_waiters
       ELSE /\ pc' = [pc EXCEPT ![d] = "sem_wait"]
            /\ sem_waiters' = Append(sem_waiters, d)
            /\ UNCHANGED <<sem_value, text, task_outcome, completion, failure,
                           ai_detected_vendor, vendor, upd>>
    /\ UNCHANGED <<cfg, lock, calls, vendors_data, store, files, returned>>

\* a released slot goes to the first waiter
SemWake(d) ==
    /\ pc[d] = "sem_wait"
    /\ sem_waiters # <<>> /\ Head(sem_waiters) = d
    /\ sem_value > 0
    /\ sem_waiters' = Tail(sem_waiters)
    /\ Enter(d)
    /\ UNCHANGED <<cfg, next_task, lock, calls, vendors_data, store, files, returned>>

\* _process_with_ai: both agent runs are started and gathered; text_content
\* is not read after the prompts are built
IssueCalls(d) ==
    /\ pc[d] = "text_extracted"
    /\ pc' = [pc EXCEPT ![d] = "extracting"]
    /\ norm_call' = [norm_call EXCEPT ![d] = CallPending]
    /\ raw_call' = [raw_call EXCEPT ![d] = CallPending]
    /\ text' = [text EXCEPT ![d] = <<>>]
    /\ UNCHANGED <<cfg, sem, lock, locals, store, files, batch>>

\* the backend settles normalized_agent.run
NormSettle(d) ==
    /\ norm_call[d].st = "pending"
    /\ \E r \in NormOutcomes : norm_call' = [norm_call EXCEPT ![d] = r]
    /\ UNCHANGED <<cfg, sem, lock, pc, text, raw_call, locals, store, files, batch>>

\* the backend settles raw_agent.run
RawSettle(d) ==
    /\ raw_call[d].st = "pending"
    /\ \E r \in RawOutcomes(d) : raw_call' = [raw_call EXCEPT ![d] = r]
    /\ UNCHANGED <<cfg, sem, lock, pc, text, norm_call, locals, store, files, batch>>

\* asyncio.gather(normalized_task, raw_task) raises as soon as one of the two
\* has raised; the exception reaches the except clause
JoinRaise(d) ==
    /\ pc[d] = "extracting"
    /\ norm_call[d].st = "raised" \/ raw_call[d].st = "raised"
    /\ Finish(d, "failed", ExceptionOutcome, "inference_raised")
    /\ sem_value' = sem_value + 1
    /\ UNCHANGED <<cfg, next_task, sem_waiters, lock, text, calls, vendors_data, store,
                   files, returned>>

\* a join that goes on once the normalized run has returned
NormReturned(d) == norm_call[d].st = "returned"

\* both runs have returned
BothReturned(d) == norm_call[d].st = "returned" /\ raw_call[d].st = "returned"

\* "if not normalized_result or not raw_result: return None"
JoinIncomplete(d) ==
    /\ pc[d] = "extracting"
    /\ BothReturned(d)
    /\ norm_call[d].kind = "none" \/ raw_call[d].kind = "none"
    /\ Finish(d, "failed", NoneValue, "incomplete")
    /\ sem_value' = sem_value + 1
    /\ UNCHANGED <<cfg, next_task, sem_waiters, lock, text, calls, vendors_data, store,
                   files, returned>>

\* reading .output.vendor or .output.verbatim_vendor_name of a result without
\* output raises AttributeError before the first _update_vendor_config call:
\* with an override only normalized_result.output is read there
JoinAttributeError(d) ==
    /\ pc[d] = "extracting"
    /\ BothReturned(d)
    /\ norm_call[d].kind # "none" /\ raw_call[d].kind # "none"
    /\ IF vendor_override # <<>>
       THEN norm_call[d].kind = "nopayload"
       ELSE norm_call[d].kind = "nopayload" \/ raw_call[d].kind = "nopayload"
    /\ Finish(d, "failed", ExceptionOutcome, "missing_payload")
    /\ sem_value' = sem_value + 1
    /\ UNCHANGED <<cfg, next_task, sem_waiters, lock, text, calls, vendors_data, store,
                   files, returned>>

\* a lock that is taken whether or not another task holds it
LockAcquireUnguarded(d, locked) ==
    /\ lock_holder' = d
    /\ pc' = [pc EXCEPT ![d] = "load"]
    /\ UNCHANGED lock_waiters

\* "async with self.context.lock": asyncio.Lock.acquire takes the lock when
\* it is not locked and nobody waits for it, and queues the task otherwise
LockAcquire(d, locked) ==
    IF ~locked /\ lock_waiters = <<>>
    THEN /\ lock_holder' = d
         /\ pc' = [pc EXCEPT ![d] = "load"]
         /\ UNCHANGED lock_waiters
    ELSE /\ lock_waiters' = Append(lock_waiters, d)
         /\ pc' = [pc EXCEPT ![d] = "lock_wait"]
         /\ lock_holder' = IF lock_holder = d THEN 0 ELSE lock_holder

\* the join succeeded: the task goes on to its first _update_vendor_config
JoinUpdate(d) ==
    /\ pc[d] = "extracting"
    /\ BothReturned(d)
    /\ norm_call[d].kind = "ok" /\ raw_call[d].kind # "none"
    /\ IF vendor_override # <<>>
       THEN /\ ai_detected_vendor' = [ai_detected_vendor EXCEPT ![d] = norm_call[d].vendor]
            /\ vendor' = [vendor EXCEPT ![d] = vendor_override]
            /\ upd' = [upd EXCEPT ![d] = [raw_name |-> norm_call[d].vendor,
                                          normalized_name |-> vendor_override, call |-> 1]]
       ELSE /\ raw_call[d].kind = "ok"
            /\ vendor' = [vendor EXCEPT ![d] = norm_call[d].vendor]
            /\ upd' = [upd EXCEPT ![d] = [raw_name |-> raw_call[d].vendor,
                                          normalized_name |-> norm_call[d].vendor, call |-> 1]]
            /\ UNCHANGED ai_detected_vendor
    /\ LockAcquire(d, lock_holder # 0)
    /\ UNCHANGED <<cfg, sem, text, calls, vendors_data, store, files, batch>>

\* asyncio.Lock.release wakes the first waiter, which then holds the lock
LockWake(d) ==
    /\ pc[d] = "lock_wait"
    /\ lock_holder = 0
    /\ lock_waiters # <<>> /\ Head(lock_waiters) = d
    /\ lock_holder' = d
    /\ lock_waiters' = Tail(lock_waiters)
    /\ pc' = [pc EXCEPT ![d] = "load"]
    /\ UNCHANGED <<cfg, sem, text, calls, locals, store, files, batch>>

\* a load that returns the default structure without saving it
LoadReturnNoCreate(d) ==
    /\ pc[d] = "load"
    /\ vendors_file.kind # "unparsable"
    /\ pc' = [pc EXCEPT ![d] = "mutate"]
    /\ vendors_data' = [vendors_data EXCEPT ![d] = vendors_file.vendors]
    /\ UNCHANGED <<cfg, sem, lock, text, calls, ai_detected_vendor, vendor, upd, store, files,
                   batch>>

\* a load that starts from an empty registry whatever the file holds
LoadReturnEmpty(d) ==
    /\ pc[d] = "load"
    /\ vendors_file.kind # "unparsable"
    /\ pc' = [pc EXCEPT ![d] = "mutate"]
    /\ vendors_data' = [vendors_data EXCEPT ![d] = <<>>]
    /\ UNCHANGED <<cfg, sem, lock, text, calls, ai_detected_vendor, vendor, upd, store, files,
                   batch>>

\* config.load_vendors_data returns: the registry of a valid file (of an
\* ill-typed one too, which passes the test of the structure), the empty
\* registry for a malformed one, and for an absent file the empty registry
\* after trying to create the file
LoadReturn(d) ==
    /\ pc[d] = "load"
    /\ vendors_file.kind # "unparsable"
    /\ pc' = [pc EXCEPT ![d] = "mutate"]
    /\ vendors_data' = [vendors_data EXCEPT ![d] = vendors_file.vendors]
    /\ IF vendors_file.kind = "absent"
       THEN \E o \in SaveOutcomes :
                /\ vendors_file' = save_vendors_data(<<>>, vendors_file, o)
                /\ save_failed' = (save_failed \/ o # "ok")
                /\ reg_writes' = [reg_writes EXCEPT ![d] = @ + (IF o = "open_fails" THEN 0 ELSE 1)]
       ELSE UNCHANGED store
    /\ UNCHANGED <<cfg, sem, lock, text, calls, ai_detected_vendor, vendor, upd, files, batch>>

\* an exception inside the registry cycle that leaves the lock held
LoadRaiseKeepsLock(d) ==
    /\ pc[d] = "load"
    /\ vendors_file.kind = "unparsable"
    /\ Finish(d, "failed", ExceptionOutcome, "registry_load")
    /\ sem_value' = sem_value + 1
    /\ UNCHANGED <<cfg, next_task, sem_waiters, lock, text, calls, vendors_data,
                   store, files, returned>>

\* yaml.safe_load raises on a file it cannot parse: the exception leaves
\* "async with lock" (the lock is released) and reaches the except clause
LoadRaise(d) ==
    /\ pc[d] = "load"
    /\ vendors_file.kind = "unparsable"
    /\ lock_holder' = 0
    /\ Finish(d, "failed", ExceptionOutcome, "registry_load")
    /\ sem_value' = sem_value + 1
    /\ UNCHANGED <<cfg, next_task, sem_waiters, lock_waiters, text, calls, vendors_data,
                   store, files, returned>>

\* with an override, after the first call: the raw verbatim name, when it
\* differs from the AI-detected vendor, is registered by a second call
NeedsSecondCall(d) ==
    /\ vendor_override # <<>> /\ upd[d].call = 1
    /\ raw_call[d].kind = "ok"
    /\ raw_call[d].vendor # ai_detected_vendor[d]

\* a task that, leaving its first cycle, takes the raw verbatim name for
\* registered
ReleaseSkipsSecond(d) ==
    /\ lock_holder' = 0
    /\ pc' = [pc EXCEPT ![d] = "updated"]
    /\ upd' = [upd EXCEPT ![d].call = 2]
    /\ UNCHANGED lock_waiters

\* the task leaves "async with lock" and runs on to its next suspension:
\* the lock is released and, when a second call is due, requested again
Release(d) ==
    IF NeedsSecondCall(d)
    THEN /\ upd' = [upd EXCEPT ![d] = [raw_name |-> raw_call[d].vendor,
                                       normalized_name |-> vendor_override, call |-> 2]]
         /\ LockAcquire(d, FALSE)
    ELSE /\ lock_holder' = 0
         /\ pc' = [pc EXCEPT ![d] = "updated"]
         /\ UNCHANGED <<upd, lock_waiters>>

\* an exception of the reconciler that leaves the lock held
ReconcileRaiseKeepsLock(d) ==
    /\ pc[d] = "mutate"
    /\ vendors_file.kind = "ill_typed"
    /\ Finish(d, "failed", ExceptionOutcome, "registry_reconcile")
    /\ sem_value' = sem_value + 1
    /\ UNCHANGED <<cfg, next_task, sem_waiters, lock, text, calls, vendors_data,
                   store, files, returned>>

\* find_vendor_by_name raises AttributeError on an entry that is not a
\* mapping: the exception leaves "async with lock" (the lock is released)
\* and reaches the except clause.  Nothing is saved over such a file, so
\* what the task loaded is what the file holds
ReconcileRaise(d) ==
    /\ pc[d] = "mutate"
    /\ vendors_file.kind = "ill_typed"
    /\ lock_holder' = 0
    /\ Finish(d, "failed", ExceptionOutcome, "registry_reconcile")
    /\ sem_value' = sem_value + 1
    /\ UNCHANGED <<cfg, next_task, sem_waiters, lock_waiters, text, calls, vendors_data,
                   store, files, returned>>

\* a cycle that saves the registry whether or not it was modified
ReconcileAlwaysSaves(d) ==
    /\ pc[d] = "mutate"
    /\ vendors_file.kind # "ill_typed"
    /\ LET r == add_or_update_vendor_alias(vendors_data[d], upd[d].raw_name,
                                           upd[d].normalized_name)
       IN  /\ vendors_data' = [vendors_data EXCEPT ![d] = r.vendors]
           /\ pc' = [pc EXCEPT ![d] = "save"]
           /\ UNCHANGED <<lock, upd>>
    /\ UNCHANGED <<cfg, sem, text, calls, ai_detected_vendor, vendor, store, files, batch>>

\* add_or_update_vendor_alias on the loaded registry; an unmodified registry
\* is not saved and the lock is released
Reconcile(d) ==
    /\ pc[d] = "mutate"
    /\ vendors_file.kind # "ill_typed"
    /\ LET r == add_or_update_vendor_alias(vendors_data[d], upd[d].raw_name,
                                           upd[d].normalized_name)
       IN  IF r.was_modified
           THEN /\ vendors_data' = [vendors_data EXCEPT ![d] = r.vendors]
                /\ pc' = [pc EXCEPT ![d] = "save"]
                /\ UNCHANGED <<lock, upd>>
           ELSE /\ vendors_data' = [vendors_data EXCEPT ![d] = <<>>]
                /\ Release(d)
    /\ UNCHANGED <<cfg, sem, text, calls, ai_detected_vendor, vendor, store, files, batch>>

\* save_vendors_data(updated_data, vendors_file), then the lock is released
Save(d) ==
    /\ pc[d] = "save"
    /\ \E o \in SaveOutcomes :
           /\ vendors_file' = save_vendors_data(vendors_data[d], vendors_file, o)
           /\ save_failed' = (save_failed \/ o # "ok")
           /\ reg_writes' = [reg_writes EXCEPT ![d] = @ + (IF o = "open_fails" THEN 0 ELSE 1)]
    /\ vendors_data' = [vendors_data EXCEPT ![d] = <<>>]
    /\ Release(d)
    /\ UNCHANGED <<cfg, sem, text, calls, ai_detected_vendor, vendor, files, batch>>

\* with an override, raw_result.output is read only after the first call
SecondUpdateAttributeError(d) ==
    /\ pc[d] = "updated"
    /\ vendor_override # <<>> /\ upd[d].call = 1
    /\ raw_call[d].kind = "nopayload"
    /\ Finish(d, "failed", ExceptionOutcome, "missing_payload")
    /\ sem_value' = sem_value + 1
    /\ UNCHANGED <<cfg, next_task, sem_waiters, lock, text, calls, vendors_data, store,
                   files, returned>>

\* a task that goes on to the placement as soon as its join has succeeded
ReconciledAtJoin(d) ==
    /\ pc[d] = "extracting"
    /\ norm_call[d].st = "returned" /\ raw_call[d].st = "returned"
    /\ norm_call[d].kind = "ok" /\ raw_call[d].kind = "ok"

\* the reconciliation of the task is complete
Reconciled(d) ==
    /\ pc[d] = "updated"
    /\ \/ vendor_override = <<>>
       \/ upd[d].call = 2
       \/ raw_call[d].kind = "ok" /\ raw_call[d].vendor = ai_detected_vendor[d]

PlaceOutcomes == {"ok", "mkdir_fails", "transfer_fails"}

\* destination_path is source_path
SameFile(d, new_filename) == in_output /\ Basename(d) = new_filename

\* a transfer that never removes the source
SourceAlwaysRemains(d, new_filename) == TRUE

\* the source path exists after the transfer: shutil.copy leaves it, and
\* shutil.move renames the file, onto itself when both paths are the same
SourceRemains(d, new_filename) == ~move_file \/ SameFile(d, new_filename)

\* what the file at source_path holds
SourceContent(d) ==
    IF in_output THEN (CHOOSE f \in out_dir.files : f.name = Basename(d)).content ELSE d

\* a transfer that leaves a file of that name in output_dir beside the new one
PlaceKeepsExisting(d) ==
    /\ Reconciled(d)
    /\ LET new_filename == to_filename(Details(vendor[d]))
           placed_file == [name |-> new_filename, content |-> SourceContent(d)]
       IN  \E o \in PlaceOutcomes :
               LET done == o = "ok" /\ (SameFile(d, new_filename) => move_file)
                   kept == {f \in out_dir.files :
                               /\ (in_output /\ f.name = Basename(d)) =>
                                      SourceRemains(d, new_filename)}
               IN  /\ out_dir' = [exists |-> out_dir.exists \/ o # "mkdir_fails",
                                  files |-> IF done THEN kept \cup {placed_file}
                                            ELSE out_dir.files]
                   /\ source_present' =
                          [e \in Docs |->
                              IF ~done THEN source_present[e]
                              ELSE IF e = d THEN SourceRemains(d, new_filename)
                              ELSE source_present[e] \/ (in_output /\ Basename(e) = new_filename)]
                   /\ transfers' = IF done THEN transfers \cup {d} ELSE transfers
                   /\ IF done
                      THEN Finish(d, "placed", Filename(new_filename), "none")
                      ELSE Finish(d, "failed", ExceptionOutcome, "placement")
    /\ sem_value' = sem_value + 1
    /\ UNCHANGED <<cfg, next_task, sem_waiters, lock, text, calls, vendors_data, store,
                   returned>>

\* to_filename and _process_file: the directory is created, the source is
\* moved or copied over whatever has that name, the filename is returned; an
\* exception of os.makedirs or shutil, the SameFileError of shutil.copy
\* included, reaches the except clause
Place(d) ==
    /\ Reconciled(d)
    /\ LET new_filename == to_filename(Details(vendor[d]))
           placed_file == [name |-> new_filename, content |-> SourceContent(d)]
       IN  \E o \in PlaceOutcomes :
               LET done == o = "ok" /\ (SameFile(d, new_filename) => move_file)
                   kept == {f \in out_dir.files :
                               /\ f.name # new_filename
                               /\ (in_output /\ f.name = Basename(d)) =>
                                      SourceRemains(d, new_filename)}
               IN  /\ out_dir' = [exists |-> out_dir.exists \/ o # "mkdir_fails",
                                  files |-> IF done THEN kept \cup {placed_file}
                                            ELSE out_dir.files]
                   /\ source_present' =
                          [e \in Docs |->
                              IF ~done THEN source_present[e]
                              ELSE IF e = d THEN SourceRemains(d, new_filename)
                              ELSE source_present[e] \/ (in_output /\ Basename(e) = new_filename)]
                   /\ transfers' = IF done THEN transfers \cup {d} ELSE transfers
                   /\ IF done
                      THEN Finish(d, "placed", Filename(new_filename), "none")
                      ELSE Finish(d, "failed", ExceptionOutcome, "placement")
    /\ sem_value' = sem_value + 1
    /\ UNCHANGED <<cfg, next_task, sem_waiters, lock, text, calls, vendors_data, store,
                   returned>>

\* the tasks in the order of file_paths
file_paths == [i \in Docs |-> i]

\* results collected in the order the tasks finished
gather_as_completed(outcomes, order) ==
    IF \E i \in Docs : outcomes[i].kind = "exception"
    THEN [done |-> TRUE, raised |-> TRUE, results |-> <<>>]
    ELSE [done |-> TRUE, raised |-> FALSE,
          results |-> [i \in Docs |-> IF i <= Len(order) THEN outcomes[order[i]] ELSE NoneValue]]

\* asyncio.gather(*tasks, return_exceptions=False): the results in the order
\* of the tasks; an exception of a task is raised to the caller
gather(outcomes, order) ==
    IF \E i \in Docs : outcomes[i].kind = "exception"
    THEN [done |-> TRUE, raised |-> TRUE, results |-> <<>>]
    ELSE [done |-> TRUE, raised |-> FALSE, results |-> [i \in Docs |-> outcomes[file_paths[i]]]]

\* process_multiple_invoices returns
BatchReturn ==
    /\ ~returned.done
    /\ \/ \A d \in Docs : task_outcome[d].kind # "running"
       \/ \E d \in Docs : task_outcome[d].kind = "exception"
    /\ returned' = gather(task_outcome, completion)
    /\ UNCHANGED <<cfg, sem, lock, pc, text, calls, locals, store, files, task_outcome,
                   completion, failure>>

Next ==
    \/ \E d \in Docs : TaskStart(d)
    \/ \E d \in Docs : SemWake(d)
    \/ \E d \in Docs : IssueCalls(d)
    \/ \E d \in Docs : NormSettle(d)
    \/ \E d \in Docs : RawSettle(d)
    \/ \E d \in Docs : JoinRaise(d)
    \/ \E d \in Docs : JoinIncomplete(d)
    \/ \E d \in Docs : JoinAttributeError(d)
    \/ \E d \in Docs : JoinUpdate(d)
    \/ \E d \in Docs : LockWake(d)
    \/ \E d \in Docs : LoadReturn(d)
    \/ \E d \in Docs : LoadRaise(d)
    \/ \E d \in Docs : ReconcileRaise(d)
    \/ \E d \in Docs : Reconcile(d)
    \/ \E d \in Docs : Save(d)
    \/ \E d \in Docs : SecondUpdateAttributeError(d)
    \/ \E d \in Docs : Place(d)
    \/ BatchReturn

Spec == Init /\ [][Next]_vars

\* the steps of task d, of its two inference calls included
TaskStep(d) ==
    \/ TaskStart(d) \/ SemWake(d) \/ IssueCalls(d) \/ NormSettle(d) \/ RawSettle(d)
    \/ JoinRaise(d) \/ JoinIncomplete(d) \/ JoinAttributeError(d) \/ JoinUpdate(d)
    \/ LockWake(d) \/ LoadReturn(d) \/ LoadRaise(d) \/ ReconcileRaise(d) \/ Reconcile(d)
    \/ Save(d)
    \/ SecondUpdateAttributeError(d) \/ Place(d)

\* the event loop runs every task that is ready, every external call
\* eventually returns or raises, and the coordinator resumes once its gather
\* is done
Fairness == (\A d \in Docs : WF_vars(TaskStep(d))) /\ WF_vars(BatchReturn)

FairSpec == Spec /\ Fairness

(***************************************************************************)
(* The batch on files that lie in output_dir or elsewhere.                 *)
(***************************************************************************)
PlaceInit == \E in_place \in BOOLEAN : InitIn(in_place) /\ vendors_file # FileMalformed

PlaceSpec == PlaceInit /\ [][Next]_vars

(***************************************************************************)
(* The batch with somebody else editing the vendors file between the       *)
(* registry cycles.                                                        *)
(***************************************************************************)
\* the record an external edit adds
ExternalRecord == [name |-> <<"E">>, aliases |-> <<<<"e", "x">>>>]

\* outside every registry cycle, a valid vendors file gets a record appended
\* by hand, once
ExternalEdit ==
    /\ vendors_file.kind = "valid"
    /\ \A d \in Docs : pc[d] \notin {"load", "mutate", "save"}
    /\ ~InSeq(ExternalRecord, vendors_file.vendors)
    /\ vendors_file' = FileValid(Append(vendors_file.vendors, ExternalRecord))
    /\ UNCHANGED <<cfg, sem, lock, pc, text, calls, locals, save_failed, reg_writes, files,
                   batch>>

EditNext == ExternalEdit \/ Next

EditSpec == Init /\ [][EditNext]_vars

(***************************************************************************)
(* The folder mode of the CLI: the folder is listed and the batch runs on  *)
(* the listed files.                                                       *)
(***************************************************************************)
\* the PDF file of the folder with number i: "b.pdf", "BB.PDF", "bbb.pdf", ...
PdfName(i) ==
    IF i % 2 = 1 THEN [j \in 1..i |-> "b"] \o <<".", "p", "d", "f">>
    ELSE [j \in 1..i |-> "B"] \o <<".", "P", "D", "F">>

\* the files of the folder: one PDF file per document and a file that is not
\* a PDF file
FolderNames == {PdfName(i) : i \in Docs} \cup {<<"a", "p", "d", "f">>}

\* os.listdir: the names in arbitrary order
ListDir(names) ==
    {l \in [1..Cardinality(names) -> names] : \A i, j \in DOMAIN l : i # j => l[i] # l[j]}

CliInit == Init /\ max_concurrent >= 1

\* pdf_files = get_pdf_files(args.folder)
ListFolder ==
    /\ pdf_files = <<>>
    /\ \E listing \in ListDir(FolderNames) : pdf_files' = get_pdf_files(listing)
    /\ UNCHANGED <<max_concurrent, vendor_override, move_file, in_output, rec_vendors, rec_call,
                   san, named, app, sem, lock, pc, text, calls, locals, store, files, batch>>

\* "if pdf_files:" process_multiple_invoices(pdf_files, ...) runs the batch
CliNext ==
    \/ ListFolder
    \/ pdf_files # <<>> /\ \E d \in Docs : TaskStart(d)
    \/ \E d \in Docs : SemWake(d)
    \/ \E d \in Docs : IssueCalls(d)
    \/ \E d \in Docs : NormSettle(d)
    \/ \E d \in Docs : RawSettle(d)
    \/ \E d \in Docs : JoinRaise(d)
    \/ \E d \in Docs : JoinIncomplete(d)
    \/ \E d \in Docs : JoinAttributeError(d)
    \/ \E d \in Docs : JoinUpdate(d)
    \/ \E d \in Docs : LockWake(d)
    \/ \E d \in Docs : LoadReturn(d)
    \/ \E d \in Docs : LoadRaise(d)
    \/ \E d \in Docs : ReconcileRaise(d)
    \/ \E d \in Docs : Reconcile(d)
    \/ \E d \in Docs : Save(d)
    \/ \E d \in Docs : SecondUpdateAttributeError(d)
    \/ \E d \in Docs : Place(d)
    \/ BatchReturn

CliSpec == CliInit /\ [][CliNext]_vars

(***************************************************************************)
(* The program started from the command line with --folder: CLIInterface   *)
(* run, in CLI mode or in TUI mode.                                        *)
(***************************************************************************)
\* the command lines: --tui or not, --folder an existing directory or not,
\* --vendor-override V or none
CommandLines ==
    {[st |-> "parsed", tui |-> t, folder |-> f, vendor_override |-> v] :
        t \in BOOLEAN, f \in {"dir", "missing"}, v \in Overrides}

\* the parameters of InvoiceProcessorApp.__init__
AppInitParameters == {"folder_path", "context", "move_files", "output_dir"}

\* the keywords _run_tui_mode calls InvoiceProcessorApp with
AppCallKeywords == {"folder_path", "context", "move_files", "output_dir", "vendor_override"}

\* args are parsed, no processor is constructed yet
TuiInit ==
    /\ BatchInit(FALSE) /\ max_concurrent >= 1 /\ vendor_override = <<>>
    /\ app \in CommandLines

\* _run_cli_mode: the processor is constructed with the override of the
\* command line; a folder that is no directory is reported and the run ends
RunCliMode ==
    /\ app.st = "parsed" /\ ~app.tui
    /\ vendor_override' = app.vendor_override
    /\ app' = [app EXCEPT !.st = IF app.folder = "dir" THEN "cli" ELSE "folder_not_found"]
    /\ UNCHANGED <<max_concurrent, move_file, in_output, rec_vendors, rec_call, san, named,
                   pdf_files, sem, lock, pc, text, calls, locals, store, files, batch>>

\* _run_tui_mode: a folder that is no directory is reported; otherwise
\* InvoiceProcessorApp is called with the keyword vendor_override, and a
\* keyword that is no parameter of __init__ raises TypeError out of run().
\* An app that is constructed makes its processor as InvoiceProcessor(context)
RunTuiMode ==
    /\ app.st = "parsed" /\ app.tui
    /\ app' = [app EXCEPT !.st = IF app.folder # "dir" THEN "folder_not_found"
                                  ELSE IF AppCallKeywords \subseteq AppInitParameters
                                       THEN "tui" ELSE "type_error"]
    /\ vendor_override' = <<>>
    /\ UNCHANGED <<max_concurrent, move_file, in_output, rec_vendors, rec_call, san, named,
                   pdf_files, sem, lock, pc, text, calls, locals, store, files, batch>>

\* CLIInterface.run; in CLI mode the folder is listed and the batch runs
TuiNext ==
    \/ RunCliMode
    \/ RunTuiMode
    \/ app.st = "cli" /\ ListFolder
    \/ pdf_files # <<>> /\ \E d \in Docs : TaskStart(d)
    \/ \E d \in Docs : SemWake(d)
    \/ \E d \in Docs : IssueCalls(d)
    \/ \E d \in Docs : NormSettle(d)
    \/ \E d \in Docs : RawSettle(d)
    \/ \E d \in Docs : JoinRaise(d)
    \/ \E d \in Docs : JoinIncomplete(d)
    \/ \E d \in Docs : JoinAttributeError(d)
    \/ \E d \in Docs : JoinUpdate(d)
    \/ \E d \in Docs : LockWake(d)
    \/ \E d \in Docs : LoadReturn(d)
    \/ \E d \in Docs : LoadRaise(d)
    \/ \E d \in Docs : ReconcileRaise(d)
    \/ \E d \in Docs : Reconcile(d)
    \/ \E d \in Docs : Save(d)
    \/ \E d \in Docs : SecondUpdateAttributeError(d)
    \/ \E d \in Docs : Place(d)
    \/ BatchReturn

TuiSpec == TuiInit /\ [][TuiNext]_vars

(***************************************************************************)
(* The reconciler on its own: sequences of add_or_update_vendor_alias      *)
(* calls on a loaded vendors list, no batch running.                       *)
(***************************************************************************)
\* number of calls of a sequence
MaxCalls == 3

S_Amazon == <<"A", "m", "a", "z", "o", "n">>
S_AmazonEUSarl == <<"A", "m", "a", "z", "o", "n", " ", "E", "U", " ", "S", "a", "r", "l">>
S_AMAZONCOM == <<"A", "M", "A", "Z", "O", "N", ".", "C", "O", "M">>

\* raw vendor names as found on invoices
RecRawNames == {<<"a", " ", "b">>, <<"A", " ", "B">>, <<"a", "b">>, S_AmazonEUSarl, S_AMAZONCOM}
\* normalized vendor names
RecNormNames == {<<"a", "b">>, <<"a", " ", "b">>, <<"a", "_", "b">>, S_Amazon}

\* vendors lists load_vendors_data returns: the empty one, one written by
\* earlier runs, and hand-edited ones whose names are not title-cased
RecLoaded ==
    {<<>>,
     <<[name |-> S_Amazon, aliases |-> <<S_AmazonEUSarl>>]>>,
     <<[name |-> <<"a", "b">>, aliases |-> <<>>]>>,
     <<[name |-> <<"A", " ", "B">>, aliases |-> <<S_AMAZONCOM>>],
       [name |-> <<"A", "B">>, aliases |-> <<>>]>>}

\* no batch is running
BatchIdle ==
    /\ max_concurrent = 0 /\ vendor_override = <<>> /\ move_file = FALSE /\ in_output = FALSE
    /\ next_task = 0 /\ sem_value = 0 /\ sem_waiters = <<>>
    /\ lock_holder = 0 /\ lock_waiters = <<>>
    /\ pc = [d \in Docs |-> "queued"]
    /\ text = [d \in Docs |-> <<>>]
    /\ norm_call = [d \in Docs |-> CallIdle]
    /\ raw_call = [d \in Docs |-> CallIdle]
    /\ ai_detected_vendor = [d \in Docs |-> <<>>]
    /\ vendor = [d \in Docs |-> <<>>]
    /\ upd = [d \in Docs |-> NoUpd]
    /\ vendors_data = [d \in Docs |-> <<>>]
    /\ vendors_file = FileAbsent
    /\ save_failed = FALSE
    /\ source_present = [d \in Docs |-> TRUE]
    /\ out_dir = [exists |-> FALSE, files |-> {}]
    /\ task_outcome = [d \in Docs |-> NotFinished]
    /\ completion = <<>>
    /\ returned = [done |-> FALSE, raised |-> FALSE, results |-> <<>>]
    /\ reg_writes = [d \in Docs |-> 0]
    /\ failure = [d \in Docs |-> "none"]
    /\ transfers = {}
    /\ pdf_files = <<>>
    /\ app = NoApp

batch_vars == <<max_concurrent, vendor_override, move_file, in_output, sem, lock, pc, text, calls, locals,
                store, files, batch, pdf_files, app>>

RecInit ==
    /\ BatchIdle
    /\ rec_vendors \in RecLoaded
    /\ rec_call = [NoCall EXCEPT !.origin = rec_vendors]
    /\ san = NoSan
    /\ named = NoName

\* one call updated_data, was_modified = add_or_update_vendor_alias(...)
RecCall(raw, norm) ==
    /\ rec_call.n < MaxCalls
    /\ LET r == add_or_update_vendor_alias(rec_vendors, raw, norm)
       IN  /\ rec_vendors' = r.vendors
           /\ rec_call' = [n |-> rec_call.n + 1, raw_name |-> raw, normalized_name |-> norm,
                           before |-> rec_vendors, was_modified |-> r.was_modified,
                           origin |-> rec_call.origin,
                           prev |-> [raw_name |-> rec_call.raw_name,
                                     normalized_name |-> rec_call.normalized_name,
                                     before |-> rec_call.before,
                                     was_modified |-> rec_call.was_modified]]
    /\ UNCHANGED <<batch_vars, san, named>>

RecNext == \E raw \in RecRawNames, norm \in RecNormNames : RecCall(raw, norm)

RecSpec == RecInit /\ [][RecNext]_vars

(***************************************************************************)
(* The sanitizer on its own: sanitize_filename_part applied to a string    *)
(* and to its own result.                                                  *)
(***************************************************************************)
\* length of the strings sanitized
MaxLen == 3

\* a letter of each case, the separators, an invalid character, the stripped
\* characters and a white-space character that is not the space
SanChars == {"a", "B", "/", "\\", " ", ":", ".", "_", "\t"}

\* the strings of at most n characters
StringsUpTo(n) == UNION {[1..k -> SanChars] : k \in 0..n}

\* no reconciler call sequence is running
RecIdle == rec_vendors = <<>> /\ rec_call = NoCall

SanInit ==
    /\ BatchIdle /\ RecIdle /\ named = NoName
    /\ san \in {[NoSan EXCEPT !.part = p] : p \in StringsUpTo(MaxLen)}

\* sanitize_filename_part(part)
SanitizeOnce ==
    /\ san.stage = 0
    /\ san' = [san EXCEPT !.stage = 1, !.once = sanitize_filename_part(san.part)]
    /\ UNCHANGED <<batch_vars, rec_vendors, rec_call, named>>

\* sanitize_filename_part of the result
SanitizeAgain ==
    /\ san.stage = 1
    /\ san' = [san EXCEPT !.stage = 2, !.twice = sanitize_filename_part(san.once)]
    /\ UNCHANGED <<batch_vars, rec_vendors, rec_call, named>>

SanNext == SanitizeOnce \/ SanitizeAgain

SanSpec == SanInit /\ [][SanNext]_vars

(***************************************************************************)
(* Filename synthesis on its own: to_filename of an InvoiceDetails.        *)
(***************************************************************************)
S_books == <<"b", "o", "o", "k", "s">>

NameVendors ==
    {S_Amazon, <<"a", " ", "b">>, <<"A", "/", "b", ".">>, <<".", ".", "/", ".", ".", "/", "x">>,
     <<"\\", "a", "\\", "b">>, <<"/">>}
NameCategories == {S_books, <<"B", " ", "k">>, <<".", ".", "\\", "c", "/", "d">>}
NameDates == {[year |-> 2024, month |-> 3, day |-> 5], [year |-> 1999, month |-> 12, day |-> 31]}
NameCounts == {0, 3, 12}
\* amounts in hundredths: 42.5, 0.05, 1234.56; 2.1, 0.0
NameAmounts == {4250, 5, 123456}
NameVats == {210, 0}

Invoices ==
    [vendor : NameVendors, invoice_date : NameDates, item_count : NameCounts,
     item_category : NameCategories, total_amount : NameAmounts, total_vat : NameVats]

NameInit ==
    /\ BatchIdle /\ RecIdle /\ san = NoSan
    /\ named \in {[NoName EXCEPT !.inv = i] : i \in Invoices}

\* new_filename = normalized_result.output.to_filename()
MakeName ==
    /\ ~named.done
    /\ named' = [named EXCEPT !.done = TRUE, !.filename = to_filename(named.inv)]
    /\ UNCHANGED <<batch_vars, rec_vendors, rec_call, san>>

NameNext == MakeName

NameSpec == NameInit /\ [][NameNext]_vars

(***************************************************************************)
(* Properties of the batch.                                                *)
(***************************************************************************)
Terminal(d) == pc[d] \in {"placed", "failed"}
AllTerminal == \A d \in Docs : Terminal(d)

\* the task is inside a registry cycle: it holds the lock and has not yet
\* persisted or decided not to persist
InCycle(d) == pc[d] \in {"load", "mutate", "save"}

\* the task's cycle has read the vendors file
HasRead(d) == pc[d] \in {"mutate", "save"}

\* the step reads or writes the vendors file on behalf of task e
Accesses(e) == (pc[e] = "load" /\ pc'[e] # "load") \/ (pc[e] = "save" /\ pc'[e] # "save")

\* the task is between the start and the return of process_single_invoice
InFlight(d) == pc[d] \notin {"queued", "sem_wait", "placed", "failed"}

\* the task's reconciliation ran to its end
ReconciledDone(d) == Terminal(d) /\ failure[d] \in {"none", "placement"}

\* the vendor the filename of task d is made of
FilenameVendor(d) == IF vendor_override # <<>> THEN vendor_override ELSE norm_call[d].vendor

\* the records of the vendors file named key
RecordsNamed(key) ==
    {i \in 1..Len(vendors_file.vendors) : vendors_file.vendors[i].name = key}

\* C1: at most one task is inside a registry cycle at a time, and once a
\* task's cycle has read the vendors file no other task reads or writes the
\* file until that cycle has saved or decided not to save.
C1_RegistryCycleExclusive ==
    [][/\ \A d, e \in Docs : d # e => ~(InCycle(d)' /\ InCycle(e)')
       /\ \A d, e \in Docs : (d # e /\ HasRead(d)) => ~Accesses(e)]_vars

\* C1 witness: one task has read the file in its cycle while another waits
\* for the lock.
C1_Witness == \E d, e \in Docs : pc[d] = "mutate" /\ pc[e] = "lock_wait"

\* the (raw_name, normalized_name) pairs task d reconciles
ReconciledPairs(d) ==
    IF vendor_override # <<>>
    THEN {<<norm_call[d].vendor, vendor_override>>}
             \cup (IF raw_call[d].vendor # norm_call[d].vendor
                   THEN {<<raw_call[d].vendor, vendor_override>>} ELSE {})
    ELSE {<<raw_call[d].vendor, norm_call[d].vendor>>}

\* C2: without a failed save, once all tasks have finished, every task that
\* reconciled (raw, norm) finds exactly one record named key(norm) in the
\* vendors file, and its raw name among that record's aliases unless the raw
\* name equals the key case-insensitively.
C2_NoLostUpdates ==
    (AllTerminal /\ ~save_failed) =>
        \A d \in Docs :
            ReconciledDone(d) =>
                \A p \in ReconciledPairs(d) :
                    LET raw == p[1]
                        key == simplified_name(p[2])
                    IN  /\ vendors_file.kind = "valid"
                        /\ Cardinality(RecordsNamed(key)) = 1
                        /\ Lower(raw) # Lower(key) =>
                               \A i \in RecordsNamed(key) :
                                   InSeq(raw, vendors_file.vendors[i].aliases)

\* C2 witness: two concurrent tasks reconciled different raw names against
\* the same vendor and the file holds one record with both aliases.
C2_Witness ==
    /\ AllTerminal /\ vendor_override = <<>> /\ ~save_failed /\ max_concurrent = 2
    /\ \A d \in {1, 2} : /\ ReconciledDone(d)
                         /\ norm_call[d] = CallOk(V_ab)
                         /\ raw_call[d] = CallOk(DocRawName(d))
    /\ vendors_file = FileValid(<<[name |-> <<"A", "b">>,
                                   aliases |-> <<DocRawName(2), DocRawName(1)>>]>>)

\* the task, under an override, is between the load of its first
\* _update_vendor_config call and the save of its second
BetweenOverrideCalls(d) ==
    /\ vendor_override # <<>>
    /\ \/ /\ upd[d].call = 1
          /\ pc[d] \in {"mutate", "save", "updated"}
          /\ raw_call[d].kind = "ok" /\ raw_call[d].vendor # ai_detected_vendor[d]
       \/ /\ upd[d].call = 2
          /\ pc[d] \in {"lock_wait", "load", "mutate", "save"}

C4_ConcurrencyCap ==
    /\ Cardinality({d \in Docs : InFlight(d)}) <= max_concurrent
    /\ sem_value >= 0
    /\ sem_value + Cardinality({d \in Docs : InFlight(d)}) = max_concurrent

\* C4 witness: with max_concurrent = 1 the first task is in flight and the
\* second waits for its slot.
C4_Witness == max_concurrent = 1 /\ pc[1] = "extracting" /\ pc[2] = "sem_wait"

\* C5: no exception leaves a task or the batch; a failed task returns None;
\* a finished task that met no failure of its own is placed and returns the
\* filename made of its own fields.
C5_BatchIsolation ==
    /\ ~returned.raised
    /\ \A d \in Docs :
        /\ task_outcome[d].kind # "exception"
        /\ pc[d] = "failed" => task_outcome[d] = NoneValue /\ failure[d] # "none"
        /\ (Terminal(d) /\ failure[d] = "none") =>
               /\ pc[d] = "placed"
               /\ task_outcome[d] = Filename(to_filename(Details(FilenameVendor(d))))

\* C5 witness: the batch returned; the first task failed on a raised
\* inference call and the second was placed.
C5_Witness ==
    /\ returned.done
    /\ failure[1] = "inference_raised" /\ ~returned.results[1].ok
    /\ pc[2] = "placed" /\ returned.results[2].ok

\* one of the task's inference calls failed or returned no payload
IncompleteInference(d) ==
    \/ norm_call[d].st = "raised" \/ raw_call[d].st = "raised"
    \/ norm_call[d].kind \in {"none", "nopayload"}
    \/ raw_call[d].kind \in {"none", "nopayload"}

\* C6: a task one of whose inference calls failed or returned no payload
\* writes nothing to the vendors file, moves or copies no file and is never
\* placed, with or without an override.
C6_AllOrNothingExtraction ==
    \A d \in Docs :
        IncompleteInference(d) => reg_writes[d] = 0 /\ d \notin transfers /\ pc[d] # "placed"

\* C7: a task leaves the Extracting state only when neither of its inference
\* calls is pending.
C7_JoinWaitsForBoth ==
    \A d \in Docs :
        pc[d] \notin {"queued", "sem_wait", "text_extracted", "extracting"} =>
            norm_call[d].st # "pending" /\ raw_call[d].st # "pending"

\* the task has begun a registry cycle, waits for one or has written the file
RegistryActive(d) ==
    pc[d] \in {"lock_wait", "load", "mutate", "save", "updated"} \/ reg_writes[d] > 0

WhitespaceOnly(t) == \A i \in 1..Len(t) : t[i] \in {" ", "\n", "\t"}

\* C9: a task whose extracted text is empty or whitespace-only fails at the
\* extraction and issues no inference call.
C9_BlankTextFails ==
    [][\A d \in Docs :
          (pc[d] = "text_extracted" /\ WhitespaceOnly(text[d])) =>
              norm_call'[d].st # "pending" /\ raw_call'[d].st # "pending"]_vars

\* C10: the returned list has one entry per path, and entry i is the outcome
\* of file_paths[i]: its filename when that document was placed, None when
\* it failed.
C10_ResultsInInputOrder ==
    returned.done =>
        /\ ~returned.raised
        /\ Len(returned.results) = NumDocs
        /\ \A i \in Docs :
            /\ pc[file_paths[i]] = "placed" =>
                   returned.results[i] = Filename(to_filename(Details(FilenameVendor(file_paths[i]))))
            /\ pc[file_paths[i]] = "failed" => returned.results[i] = NoneValue

\* C10 witness: the second document finished first; the first was placed and
\* the second failed.
C10_Witness ==
    /\ returned.done
    /\ completion = <<2, 1>>
    /\ pc[1] = "placed" /\ returned.results[1].ok
    /\ pc[2] = "failed" /\ ~returned.results[2].ok

\* the steps task d can still take at most, by its position and by the
\* _update_vendor_config call it is in
StepsLeft(d) ==
    LET second == IF upd[d].call = 2 THEN 4 ELSE 0
    IN  CASE pc[d] = "queued" -> 20
          [] pc[d] = "sem_wait" -> 19
          [] pc[d] = "text_extracted" -> 18
          [] pc[d] = "extracting" -> 17
          [] pc[d] = "lock_wait" -> 16 - second
          [] pc[d] = "load" -> 15 - second
          [] pc[d] = "mutate" -> 14 - second
          [] pc[d] = "save" -> 13 - second
          [] pc[d] = "updated" -> 8
          [] OTHER -> 0

\* the settlements an inference call still owes
CallLeft(c) == CASE c.st = "idle" -> 2 [] c.st = "pending" -> 1 [] OTHER -> 0

RECURSIVE SumOver(_, _)
SumOver(f(_), S) ==
    IF S = {} THEN 0 ELSE LET d == CHOOSE x \in S : TRUE IN f(d) + SumOver(f, S \ {d})

\* a bound on the steps the batch can still take
Rank ==
    SumOver(LAMBDA d : StepsLeft(d) + CallLeft(norm_call[d]) + CallLeft(raw_call[d]), Docs)
        + (IF returned.done THEN 0 ELSE 1)

\* some step of the batch is enabled.  Place(d) has no guard but the position
\* of the task, nor has a task at "mutate", which reconciles or raises
\* (their choices and assignments never block), so their guards stand for
\* them
CanStep ==
    \/ ENABLED <<\/ \E d \in Docs :
                      \/ TaskStart(d) \/ SemWake(d) \/ IssueCalls(d) \/ NormSettle(d)
                      \/ RawSettle(d) \/ JoinRaise(d) \/ JoinIncomplete(d)
                      \/ JoinAttributeError(d) \/ JoinUpdate(d) \/ LockWake(d)
                      \/ LoadReturn(d) \/ LoadRaise(d) \/ Save(d)
                      \/ SecondUpdateAttributeError(d)
                \/ BatchReturn>>_vars
    \/ \E d \in Docs : pc[d] = "mutate"
    \/ \E d \in Docs : Reconciled(d)

\* C11: termination of process_multiple_invoices for max_concurrent >= 1.
\* Every step of the batch lowers a natural-number bound on the steps left,
\* so no run goes on for ever; as long as the batch has not returned with
\* every document placed or failed, some step is enabled, whatever failed
\* before, so under FairSpec (every ready task is run, every external call
\* returns or raises) the batch returns; and whenever it has returned, no
\* exception was raised and every document is placed or failed.
C11_Termination ==
    /\ [][Rank' < Rank]_vars
    /\ []((max_concurrent >= 1 /\ ~(returned.done /\ AllTerminal)) => CanStep)
    /\ [](returned.done => (~returned.raised /\ AllTerminal))

\* C11 witness: with one slot, the first document failed before the second
\* had started; the second was processed and placed and the batch returned.
C11_Witness ==
    /\ max_concurrent = 1
    /\ returned.done /\ AllTerminal
    /\ completion = <<1, 2>>
    /\ pc[1] = "failed" /\ pc[2] = "placed"

\* the step is task d's load_vendors_data call, returning or raising
LoadStep(d) == pc[d] = "load" /\ pc'[d] # "load"

\* C18: load_vendors_data on a file that is present but holds no valid
\* registry (empty, not a mapping, no vendors list, or not parsable at all)
\* returns the empty registry, does not raise and leaves the file as it is.
C18_InvalidFileLoadsEmpty ==
    [][\A d \in Docs :
          (LoadStep(d) /\ vendors_file.kind \in {"malformed", "unparsable"}) =>
              /\ pc'[d] = "mutate" /\ vendors_data'[d] = <<>>
              /\ vendors_file' = vendors_file]_vars

\* C19 as stated: load_vendors_data on an absent file returns the empty
\* registry and has created the file holding the empty registry.
C19_AbsentFileCreated ==
    [][\A d \in Docs :
          (LoadStep(d) /\ vendors_file.kind = "absent") =>
              /\ pc'[d] = "mutate" /\ vendors_data'[d] = <<>>
              /\ vendors_file' = FileValid(<<>>)]_vars

\* C19 amended: load_vendors_data on an absent file returns the empty
\* registry without raising, and either it has created the file holding
\* the empty registry or a failed write was reported.
C19_AbsentFileCreatedUnlessWriteFails ==
    [][\A d \in Docs :
          (LoadStep(d) /\ vendors_file.kind = "absent") =>
              /\ pc'[d] = "mutate" /\ vendors_data'[d] = <<>>
              /\ vendors_file' = FileValid(<<>>) \/ save_failed']_vars

\* C19 witness: a task's load found no file, created it with the empty
\* registry and returned the empty registry; no write has failed.
C19_Witness ==
    /\ ~save_failed /\ vendors_file = FileValid(<<>>)
    /\ \E d \in Docs : pc[d] = "mutate" /\ reg_writes[d] = 1 /\ vendors_data[d] = <<>>

\* the step is task d's save_vendors_data call of a cycle, and the file does
\* not hold the registry it was to write
FailedSaveStep(d) ==
    /\ pc[d] = "save" /\ pc'[d] # "save"
    /\ vendors_file' # FileValid(vendors_data[d])

\* C20: a save_vendors_data that cannot write does not fail the document:
\* the task goes on towards its placement, and the store misses nothing but
\* the change of that cycle (a later load returns the registry the store
\* held before the cycle).
C20_FailedSaveNotFatal ==
    [][\A d \in Docs :
          FailedSaveStep(d) =>
              /\ pc'[d] \in {"updated", "lock_wait", "load"}
              /\ task_outcome'[d] = NotFinished
              /\ vendors_file'.kind # "unparsable"
              /\ vendors_file'.vendors = vendors_file.vendors]_vars

(***************************************************************************)
(* Properties of the reconciler (checked under RecSpec).                   *)
(***************************************************************************)
\* a call was made
Called == rec_call.n > 0

\* no two records have names equal under case-insensitive comparison
NamesUnique(vendors) ==
    \A i, j \in 1..Len(vendors) : i # j => Lower(vendors[i].name) # Lower(vendors[j].name)

\* C12: a call on a vendors list without two case-insensitively equal
\* names, whatever the names are, returns a list without two
\* case-insensitively equal names.
C12_KeyUniquenessPreserved ==
    (Called /\ NamesUnique(rec_call.before)) => NamesUnique(rec_vendors)

\* C13: after a sequence of calls from the empty list no alias string is in
\* the alias lists of two different records.
C13_AliasInOneRecord ==
    (Called /\ rec_call.origin = <<>>) =>
        \A i, j \in 1..Len(rec_vendors) :
            i # j => \A k \in 1..Len(rec_vendors[i].aliases) :
                         ~InSeq(rec_vendors[i].aliases[k], rec_vendors[j].aliases)

\* the number of pairs of aliases equal under case-insensitive comparison
DupPairs(aliases) ==
    Cardinality({p \in (1..Len(aliases)) \X (1..Len(aliases)) :
                    p[1] < p[2] /\ Lower(aliases[p[1]]) = Lower(aliases[p[2]])})

\* C14: after a sequence of calls from the empty list, in every record no
\* alias equals the record's name under case-insensitive comparison and no
\* two aliases are equal under case-insensitive comparison.
C14_AliasesCleanPerRecord ==
    (Called /\ rec_call.origin = <<>>) =>
        \A i \in 1..Len(rec_vendors) :
            /\ \A k \in 1..Len(rec_vendors[i].aliases) :
                   Lower(rec_vendors[i].aliases[k]) # Lower(rec_vendors[i].name)
            /\ DupPairs(rec_vendors[i].aliases) = 0

\* C14 witness: from the empty list, a record got two aliases and the third
\* call, whose raw name equals an alias or the name but for the case, left
\* the list as it was.
C14_Witness ==
    /\ rec_call.origin = <<>> /\ rec_call.n = 3 /\ ~rec_call.was_modified
    /\ \E i \in 1..Len(rec_vendors) :
           /\ Len(rec_vendors[i].aliases) = 2
           /\ rec_vendors[i].name = simplified_name(rec_call.normalized_name)
           /\ ~InSeq(rec_call.raw_name, rec_vendors[i].aliases)
           /\ rec_call.raw_name # rec_vendors[i].name

\* the last two calls had the same arguments
SameTwice ==
    /\ rec_call.n >= 2
    /\ rec_call.raw_name = rec_call.prev.raw_name
    /\ rec_call.normalized_name = rec_call.prev.normalized_name

\* the aliases of the first record named key, none when there is no such record
AliasesOf(vendors, key) ==
    LET hits == {i \in 1..Len(vendors) : vendors[i].name = key}
    IN  IF hits = {} THEN <<>>
        ELSE vendors[CHOOSE i \in hits : \A j \in hits : i <= j].aliases

\* C15: of two calls in a row with the same arguments the second returns
\* was_modified = FALSE and the list the first returned, and over the two
\* calls the alias list of the matched record gained no pair of
\* case-insensitively equal aliases.
C15_ReconcilerDedup ==
    SameTwice =>
        /\ ~rec_call.was_modified
        /\ rec_vendors = rec_call.before
        /\ LET key == simplified_name(rec_call.normalized_name)
           IN  DupPairs(AliasesOf(rec_vendors, key)) = DupPairs(AliasesOf(rec_call.prev.before, key))

\* C15 witness: the first of two equal calls appended an alias to a record
\* that had one, the second changed nothing.
C15_Witness ==
    /\ SameTwice /\ rec_call.prev.was_modified /\ ~rec_call.was_modified
    /\ Len(AliasesOf(rec_call.prev.before, simplified_name(rec_call.normalized_name))) = 1
    /\ Len(AliasesOf(rec_vendors, simplified_name(rec_call.normalized_name))) = 2

\* the list holds no record named canonical_key(norm)
NoRecordFor(vendors, norm) ==
    \A i \in 1..Len(vendors) : vendors[i].name # simplified_name(norm)

\* C16: a call on a list without a record named canonical_key(norm) appends
\* the one record [key, [raw]] when lower(raw) differs from lower(key),
\* [key, []] otherwise, and returns was_modified = TRUE; on the empty list
\* raw 'Amazon EU Sarl', norm 'Amazon' give the single record
\* {Amazon, [Amazon EU Sarl]}.
C16_NewVendorCreation ==
    (Called /\ NoRecordFor(rec_call.before, rec_call.normalized_name)) =>
        LET key == simplified_name(rec_call.normalized_name)
            raw == rec_call.raw_name
        IN  /\ rec_call.was_modified
            /\ rec_vendors = Append(rec_call.before,
                                 [name |-> key,
                                  aliases |-> IF Lower(raw) # Lower(key) THEN <<raw>> ELSE <<>>])
            /\ (rec_call.before = <<>> /\ raw = S_AmazonEUSarl
                    /\ rec_call.normalized_name = S_Amazon) =>
                   rec_vendors = <<[name |-> S_Amazon, aliases |-> <<S_AmazonEUSarl>>]>>

\* C16 witness: a second record was created without alias, its raw name
\* being its key but for the case.
C16_Witness ==
    /\ Called /\ NoRecordFor(rec_call.before, rec_call.normalized_name)
    /\ Len(rec_call.before) = 1 /\ Len(rec_vendors) = 2
    /\ rec_vendors[2].aliases = <<>>
    /\ rec_call.raw_name # rec_vendors[2].name

\* C17: a call on a list with a record named canonical_key(norm) appends raw
\* as it is at the end of that record's aliases and returns was_modified =
\* TRUE when lower(raw) is neither among the lower-cased aliases nor
\* lower(key); otherwise it returns the list unchanged and was_modified =
\* FALSE.
C17_AliasAppend ==
    (Called /\ ~NoRecordFor(rec_call.before, rec_call.normalized_name)) =>
        LET key == simplified_name(rec_call.normalized_name)
            raw == rec_call.raw_name
            before == rec_call.before
            g == CHOOSE i \in 1..Len(before) :
                     /\ before[i].name = key
                     /\ \A j \in 1..Len(before) : before[j].name = key => i <= j
            known == \E k \in 1..Len(before[g].aliases) : Lower(before[g].aliases[k]) = Lower(raw)
        IN  IF ~known /\ Lower(raw) # Lower(key)
            THEN /\ rec_call.was_modified
                 /\ rec_vendors = [before EXCEPT ![g].aliases = before[g].aliases \o <<raw>>]
            ELSE ~rec_call.was_modified /\ rec_vendors = before

\* C17 witness: raw 'AMAZON.COM', norm 'Amazon' on [{Amazon, [Amazon EU
\* Sarl]}] gave the record two aliases, the new one in upper case.
C17_Witness ==
    /\ rec_call.before = <<[name |-> S_Amazon, aliases |-> <<S_AmazonEUSarl>>]>>
    /\ rec_call.raw_name = S_AMAZONCOM /\ rec_call.normalized_name = S_Amazon
    /\ rec_vendors = <<[name |-> S_Amazon, aliases |-> <<S_AmazonEUSarl, S_AMAZONCOM>>]>>
    /\ rec_call.was_modified

(***************************************************************************)
(* Properties of the store, the task and the batch (checked under Spec).   *)
(***************************************************************************)
\* the step is task d's save_vendors_data call of a cycle
SaveStep(d) == pc[d] = "save" /\ pc'[d] # "save"

\* C21: after any save attempt, of a cycle or of the load that creates the
\* file, the store holds the complete new registry or exactly what it held
\* before, never an empty or partially written file.
C21_SavedWholesale ==
    [][\A d \in Docs :
          /\ SaveStep(d) =>
                 vendors_file' = FileValid(vendors_data[d]) \/ vendors_file' = vendors_file
          /\ (LoadStep(d) /\ vendors_file.kind = "absent") =>
                 vendors_file' = FileValid(<<>>) \/ vendors_file' = vendors_file]_vars

(***************************************************************************)
(* Properties of the sanitizer (checked under SanSpec).                    *)
(***************************************************************************)
\* C22: sanitize_filename_part applied to its own result returns that
\* result.
C22_SanitizerIdempotent == san.stage = 2 => san.twice = san.once

\* C22 witness: a string the sanitizer changed in all three ways (a
\* separator replaced, an invalid character removed, an end stripped) was
\* sanitized twice.
C22_Witness ==
    /\ san.stage = 2
    /\ san.part = <<"a", "/", ":">> \/ san.part = <<":", "_", "a">>
    /\ san.once # san.part

\* the characters the result may not hold, and those it may not begin or
\* end with
Forbidden == {"/", "\\", " "} \cup invalid_chars
Trimmed == {"_", ".", " ", "\t", "\n"}

\* C23: the result of sanitize_filename_part holds none of / \ space
\* < > : " | ? * and neither begins nor ends with an underscore, a dot or a
\* white-space character (space, tab, newline).
C23_SanitizedShape ==
    san.stage >= 1 =>
        /\ \A i \in 1..Len(san.once) : san.once[i] \notin Forbidden
        /\ san.once # <<>> =>
               san.once[1] \notin Trimmed /\ san.once[Len(san.once)] \notin Trimmed

(***************************************************************************)
(* Properties of the filename synthesis (checked under NameSpec).          *)
(***************************************************************************)
\* n in decimal, zero-padded on the left to w digits
RECURSIVE Padded(_, _)
Padded(n, w) == IF w = 0 THEN <<>> ELSE Padded(n \div 10, w - 1) \o <<DigitChar(n % 10)>>

S_pdf == <<".", "p", "d", "f">>
S_AmazonName ==
    <<"A", "m", "a", "z", "o", "n", "-", "2", "0", "2", "4", "0", "3", "0", "5", "-", "3", "-",
      "b", "o", "o", "k", "s", "-", "4", "2", ".", "5", "0", "-", "2", ".", "1", "0">> \o S_pdf

\* C25: the filename is sanitize(vendor)-YYYYMMDD-item_count-
\* sanitize(category)-amount-vat.pdf of the fields, both amounts with two
\* decimals and the letter case of vendor and category kept; Amazon,
\* 2024-03-05, 3, books, 42.5, 2.1 give
\* Amazon-20240305-3-books-42.50-2.10.pdf.
C25_FilenameSynthesis ==
    named.done =>
        LET i == named.inv
            dash == <<"-">>
            amount(h) == Decimal(h \div 100) \o <<".">> \o Padded(h % 100, 2)
        IN  /\ named.filename =
                   sanitize_filename_part(i.vendor) \o dash
                       \o Padded(i.invoice_date.year, 4) \o Padded(i.invoice_date.month, 2)
                       \o Padded(i.invoice_date.day, 2) \o dash
                       \o Decimal(i.item_count) \o dash
                       \o sanitize_filename_part(i.item_category) \o dash
                       \o amount(i.total_amount) \o dash \o amount(i.total_vat) \o S_pdf
            /\ (i = [vendor |-> S_Amazon, invoice_date |-> [year |-> 2024, month |-> 3, day |-> 5],
                     item_count |-> 3, item_category |-> S_books, total_amount |-> 4250,
                     total_vat |-> 210]) => named.filename = S_AmazonName

\* C25 witness: the name of the spec's example was made.
C25_Witness == named.done /\ named.filename = S_AmazonName

(***************************************************************************)
(* Properties of the batch, continued (checked under Spec).                *)
(***************************************************************************)
\* the aliases of record i of the vendors file, lower-cased
LowerAliases(i) ==
    [j \in 1..Len(vendors_file.vendors[i].aliases) |-> Lower(vendors_file.vendors[i].aliases[j])]

\* s begins with prefix
StartsWith(s, prefix) == Len(s) >= Len(prefix) /\ SubSeq(s, 1, Len(prefix)) = prefix

\* C24: with an override V, both inference calls successful (vendor A, raw
\* name R) and no failed save, once the task is reconciled the vendors file
\* holds a record named key(V) whose aliases hold A and hold R
\* case-insensitively, each unless it equals the key case-insensitively;
\* it holds no record named key(A) when that is not key(V); and the filename
\* of the placed document begins with sanitize(V).
C24_OverrideReconciliation ==
    \A d \in Docs :
        (/\ vendor_override # <<>> /\ ReconciledDone(d) /\ ~save_failed
         /\ norm_call[d].kind = "ok" /\ raw_call[d].kind = "ok") =>
            LET key == simplified_name(vendor_override)
                A == norm_call[d].vendor
                R == raw_call[d].vendor
            IN  /\ vendors_file.kind = "valid"
                /\ RecordsNamed(key) # {}
                /\ \A n \in {A, R} :
                       Lower(n) # Lower(key) =>
                           \E i \in RecordsNamed(key) : InSeq(Lower(n), LowerAliases(i))
                /\ simplified_name(A) # key => RecordsNamed(simplified_name(A)) = {}
                /\ pc[d] = "placed" =>
                       StartsWith(task_outcome[d].name,
                                  sanitize_filename_part(vendor_override) \o <<"-">>)

\* C24 witness: under the override "ab" the first document, detected as "x"
\* and printed as "a b", was placed, and the record Ab holds both names.
C24_Witness ==
    /\ vendor_override = V_ab /\ pc[1] = "placed" /\ ~save_failed
    /\ norm_call[1] = CallOk(V_x) /\ raw_call[1] = CallOk(DocRawName(1))
    /\ \E i \in RecordsNamed(<<"A", "b">>) :
           InSeq(V_x, LowerAliases(i)) /\ InSeq(DocRawName(1), LowerAliases(i))

\* the state of the Document Task state machine a task position belongs to;
\* a task is Extracting until its last registry cycle has ended
StateOf(p) ==
    CASE p \in {"queued", "sem_wait"} -> "Queued"
      [] p = "text_extracted" -> "TextExtracted"
      [] p \in {"extracting", "lock_wait", "load", "mutate", "save"} -> "Extracting"
      [] p = "updated" -> "Reconciled"
      [] p = "placed" -> "Placed"
      [] p = "failed" -> "Failed"

Successor ==
    {<<"Queued", "TextExtracted">>, <<"TextExtracted", "Extracting">>,
     <<"Extracting", "Reconciled">>, <<"Reconciled", "Placed">>}

\* the registry cycles the task has to run have all ended
CyclesDone(d) ==
    /\ lock_holder # d /\ ~InSeq(d, lock_waiters)
    /\ upd[d].call = IF vendor_override # <<>> /\ raw_call[d].vendor # norm_call[d].vendor
                     THEN 2 ELSE 1

\* C26: a task changes state only to the next state of Queued,
\* TextExtracted, Extracting, Reconciled, Placed or, from a non-terminal
\* state, to Failed, and never leaves Placed or Failed; its file is moved or
\* copied only by a step that starts in Reconciled with all its registry
\* cycles ended; it has returned exactly when it is terminal, and a filename
\* exactly when it is Placed.
C26_ForwardOnly ==
    [][\A d \in Docs :
          LET from == StateOf(pc[d])
              to == StateOf(pc'[d])
          IN  /\ from # to =>
                     \/ <<from, to>> \in Successor
                     \/ to = "Failed" /\ from \notin {"Placed", "Failed"}
              /\ (d \in transfers' /\ d \notin transfers) =>
                     from = "Reconciled" /\ CyclesDone(d)
              /\ task_outcome'[d].kind # "running" <=> to \in {"Placed", "Failed"}
              /\ task_outcome'[d].ok <=> to = "Placed"]_vars

\* C26 witness: without an override the first task went through all states
\* and was placed, the second was reconciled and failed at its placement.
C26_Witness ==
    /\ vendor_override = <<>>
    /\ pc[1] = "placed" /\ 1 \in transfers /\ task_outcome[1].ok
    /\ pc[2] = "failed" /\ failure[2] = "placement" /\ 2 \notin transfers

(***************************************************************************)
(* Properties of the folder mode (checked under CliSpec).                  *)
(***************************************************************************)
\* the task has begun its text extraction
Begun(d) == pc[d] \notin {"queued", "sem_wait"}

\* C27: the listed files are the PDF files of the folder in ascending order
\* of their names, and for every max_concurrent >= 1 a document has begun
\* its text extraction only if every document with a smaller name has; no
\* document begins before the folder is listed.
C27_SortedOrder ==
    /\ pdf_files = <<>> => \A d \in Docs : ~Begun(d)
    /\ pdf_files # <<>> =>
           /\ Len(pdf_files) = NumDocs
           /\ {pdf_files[i] : i \in Docs} = {PdfName(i) : i \in Docs}
           /\ \A i, j \in Docs : i < j => StrLess(pdf_files[i], pdf_files[j])
           /\ \A d, e \in Docs :
                  (StrLess(pdf_files[d], pdf_files[e]) /\ Begun(e)) => Begun(d)

\* C27 witness: with max_concurrent = 1 the document with the smallest name,
\* BB.PDF, has its text and the next one waits for the slot.
C27_Witness ==
    /\ max_concurrent = 1 /\ pdf_files # <<>> /\ pdf_files[1] = PdfName(2)
    /\ pc[1] = "text_extracted" /\ pc[2] = "sem_wait"

(***************************************************************************)
(* Properties of the placement (checked under PlaceSpec).                  *)
(***************************************************************************)
\* the step places document d
PlaceStep(d) == pc[d] # "placed" /\ pc'[d] = "placed"

\* the step ends task d in Failed before its placement was tried
FailStepBeforePlacement(d) == pc[d] # "failed" /\ pc'[d] = "failed" /\ failure'[d] # "placement"

\* after the step output_dir exists and holds what the source of d held
\* under the name the task returns
HeldAfter(d) ==
    /\ out_dir'.exists
    /\ [name |-> task_outcome'[d].name, content |-> SourceContent(d)] \in out_dir'.files

\* after the step of a copy the source is present and holds what it held
SourceUnchanged(d) ==
    /\ source_present'[d]
    /\ in_output => [name |-> Basename(d), content |-> SourceContent(d)] \in out_dir'.files

\* C28: a step that places a document leaves output_dir existing and holding
\* the document under its synthesized name; with move_file the source path
\* does not exist after it, without move_file the source is present and
\* unchanged; a step that ends a task in Failed before its placement changes
\* neither a source file nor output_dir.
C28_PlacementEffects ==
    [][\A d \in Docs :
          /\ PlaceStep(d) =>
                 /\ HeldAfter(d)
                 /\ move_file => ~source_present'[d]
                 /\ ~move_file => SourceUnchanged(d)
          /\ FailStepBeforePlacement(d) =>
                 out_dir' = out_dir /\ source_present' = source_present]_vars

\* C28 as it holds: with move_file the source path does not exist after the
\* placing step unless it is the destination path (the file already lies in
\* output_dir under its synthesized name); all else as stated.
C28_PlacementEffectsUnlessSameFile ==
    [][\A d \in Docs :
          /\ PlaceStep(d) =>
                 /\ HeldAfter(d)
                 /\ move_file =>
                        ~source_present'[d] \/ (in_output /\ Basename(d) = task_outcome'[d].name)
                 /\ ~move_file => SourceUnchanged(d)
          /\ FailStepBeforePlacement(d) =>
                 out_dir' = out_dir /\ source_present' = source_present]_vars

\* C28 witness: the first file, lying in output_dir under its synthesized
\* name, was placed by a move and is still there; the second task failed at
\* its join and its file is present.
C28_Witness ==
    /\ in_output /\ move_file /\ pc[1] = "placed"
    /\ task_outcome[1].name = Basename(1) /\ source_present[1]
    /\ pc[2] = "failed" /\ failure[2] = "incomplete" /\ source_present[2]

(***************************************************************************)
(* Properties of the batch, continued (checked under Spec).                *)
(***************************************************************************)
\* the inference calls the backend has not settled
PendingCalls ==
    {<<d, "normalized">> : d \in {e \in Docs : norm_call[e].st = "pending"}}
        \cup {<<d, "raw">> : d \in {e \in Docs : raw_call[e].st = "pending"}}

\* C29: at most 2 * max_concurrent inference calls are pending, and no call
\* of a task is pending once the task is terminal and has released its slot.
C29_PendingCallsBounded ==
    /\ Cardinality(PendingCalls) <= 2 * max_concurrent
    /\ \A d \in Docs : Terminal(d) => \A c \in PendingCalls : c[1] # d

(***************************************************************************)
(* Properties of the registry mutex (checked under FairSpec).              *)
(***************************************************************************)
\* the place of task d among the waiters of the lock, 0 when it is not there
WaitPos(d) ==
    IF InSeq(d, lock_waiters) THEN CHOOSE i \in 1..Len(lock_waiters) : lock_waiters[i] = d ELSE 0

\* the task holding the lock can take the next step of its cycle, which a
\* task at "mutate" always can (it reconciles or raises)
HolderCanStep(d) ==
    \/ pc[d] = "load" /\ ENABLED <<LoadReturn(d) \/ LoadRaise(d)>>_vars
    \/ pc[d] = "mutate"
    \/ pc[d] = "save" /\ ENABLED <<Save(d)>>_vars

\* C30: the lock is held only inside a registry cycle, so every exit from a
\* cycle, the raising ones of load and reconcile included, has released it,
\* and a failed task holds nothing.  No waiter is stuck or overtaken: the
\* holder can always take the next step of its cycle, a free lock with
\* waiters can be handed to the first of them, a waiter only moves towards
\* the head of the queue and leaves it only by acquiring the lock; as every
\* step lowers Rank, each waiter acquires the lock under FairSpec.
C30_MutexReleased ==
    /\ [](\A d \in Docs : /\ lock_holder = d => InCycle(d)
                          /\ InCycle(d) => lock_holder = d /\ HolderCanStep(d)
                          /\ pc[d] = "lock_wait" <=> WaitPos(d) > 0)
    /\ []((lock_holder = 0 /\ lock_waiters # <<>>) =>
              ENABLED <<LockWake(Head(lock_waiters))>>_vars)
    /\ [][/\ Rank' < Rank
          /\ \A d \in Docs :
                 WaitPos(d) > 0 =>
                     \/ WaitPos(d)' \in {WaitPos(d), WaitPos(d) - 1} /\ WaitPos(d)' > 0
                     \/ WaitPos(d) = 1 /\ lock_holder = 0 /\ lock_holder' = d /\ pc'[d] = "load"]_vars

\* C30 witness: the first task failed inside its cycle on a raising
\* reconcile while the second waited for the lock, and the second has
\* acquired it.
C30_Witness ==
    /\ pc[1] = "failed" /\ failure[1] = "registry_reconcile"
    /\ lock_holder = 2 /\ pc[2] = "mutate" /\ lock_waiters = <<>>
    /\ completion = <<1>>

(***************************************************************************)
(* Properties of the registry cycle, continued (checked under Spec).       *)
(***************************************************************************)
\* the step is task d's reconcile step
ReconcileStep(d) == pc[d] = "mutate" /\ pc'[d] # "mutate"

\* the record a new vendor gets
FirstRecord(raw_name, normalized_name) ==
    [name |-> simplified_name(normalized_name),
     aliases |-> IF Lower(raw_name) = Lower(simplified_name(normalized_name))
                 THEN <<>> ELSE <<raw_name>>]

\* C31: a cycle that runs against a present file failing the test of the
\* structure goes on to save, and when its save succeeds the file holds
\* exactly one record, the one this cycle reconciled.
C31_InvalidFileReplaced ==
    [][\A d \in Docs :
          vendors_file.kind = "malformed" =>
              /\ ReconcileStep(d) => pc'[d] = "save"
              /\ (SaveStep(d) /\ vendors_file'.kind = "valid") =>
                     vendors_file'.vendors =
                         <<FirstRecord(upd[d].raw_name, upd[d].normalized_name)>>]_vars

\* C31 witness: the only write of the batch so far, by the first task, was
\* its save over the malformed file, which now holds the one record X.
C31_Witness ==
    /\ reg_writes = [d \in Docs |-> IF d = 1 THEN 1 ELSE 0] /\ ~save_failed
    /\ vendors_file = FileValid(<<[name |-> <<"X">>, aliases |-> <<DocRawName(1)>>]>>)

\* the names task d reconciled are in the vendors file: for each of its
\* pairs a record named by the key, holding the raw name unless that is the
\* key, case-insensitively
InFile(d) ==
    /\ vendors_file.kind = "valid"
    /\ \A p \in ReconciledPairs(d) :
           \E i \in RecordsNamed(simplified_name(p[2])) :
               \/ Lower(p[1]) = Lower(simplified_name(p[2]))
               \/ InSeq(Lower(p[1]), LowerAliases(i))

\* the task failed at its placement, after its reconciliation
FailedAfterReconciliation(d) == pc[d] = "failed" /\ failure[d] = "placement"

\* C32: a task that fails returns None, and what the reconciliation of a
\* task that failed at its placement has persisted stays in the vendors
\* file with every later step that changes the file, so up to the end of
\* the batch.
C32_NoRollback ==
    [][\A d \in Docs :
          /\ pc'[d] = "failed" => task_outcome'[d] = NoneValue
          /\ (vendors_file' # vendors_file /\ FailedAfterReconciliation(d) /\ InFile(d)) =>
                 InFile(d)']_vars

\* C33: with max_concurrent = 0 no task gets a slot: every task stays
\* queued or waiting for the semaphore, no text is extracted, no inference
\* call issued, the vendors file neither read nor written, no file placed,
\* and process_multiple_invoices does not return.
C33_ZeroSlotsBlocks ==
    max_concurrent = 0 =>
        /\ \A d \in Docs :
               /\ pc[d] \in {"queued", "sem_wait"}
               /\ text[d] = <<>>
               /\ norm_call[d] = CallIdle /\ raw_call[d] = CallIdle
               /\ reg_writes[d] = 0 /\ vendors_data[d] = <<>>
               /\ source_present[d]
               /\ task_outcome[d] = NotFinished
        /\ sem_value = 0 /\ lock_holder = 0 /\ lock_waiters = <<>>
        /\ vendors_file \in {FileAbsent, FileMalformed, FileUnparsable, FileIllTyped}
        /\ ~save_failed /\ transfers = {} /\ out_dir = [exists |-> FALSE, files |-> {}]
        /\ completion = <<>> /\ ~returned.done

\* C33 witness: with max_concurrent = 0 every task has started and waits for
\* a slot.
C33_Witness == max_concurrent = 0 /\ \A d \in Docs : pc[d] = "sem_wait"

(***************************************************************************)
(* Properties of the registry cycle under external edits (checked under    *)
(* EditSpec).                                                              *)
(***************************************************************************)
\* every record of before is in after at its position, with its name, and
\* its aliases are the first aliases of the record in after
Extends(after, before) ==
    /\ Len(after) >= Len(before)
    /\ \A i \in 1..Len(before) :
           /\ after[i].name = before[i].name
           /\ Len(after[i].aliases) >= Len(before[i].aliases)
           /\ SubSeq(after[i].aliases, 1, Len(before[i].aliases)) = before[i].aliases

\* C34: the load of every cycle returns what the vendors file holds at that
\* moment, external edits included, and a cycle's successful save writes a
\* registry that still holds everything the file held, the externally added
\* record included.
C34_CycleStartsFromStore ==
    [][\A d \in Docs :
          /\ (LoadStep(d) /\ pc'[d] = "mutate") => vendors_data'[d] = vendors_file.vendors
          /\ (SaveStep(d) /\ vendors_file'.kind = "valid") =>
                 Extends(vendors_file'.vendors, vendors_file.vendors)]_vars

\* C34 witness: a cycle has saved a record after the one that was added by
\* hand, which is still in the file.
C34_Witness ==
    /\ vendors_file.kind = "valid" /\ ~save_failed
    /\ \E i, j \in 1..Len(vendors_file.vendors) :
           i < j /\ vendors_file.vendors[i] = ExternalRecord


(***************************************************************************)
(* Frame of the reconciler (checked under RecSpec).                        *)
(***************************************************************************)
\* after differs from before by one alias appended to record g alone
OneAliasAppended(after, before, g) ==
    /\ Len(after) = Len(before)
    /\ after[g].name = before[g].name
    /\ Len(after[g].aliases) = Len(before[g].aliases) + 1
    /\ SubSeq(after[g].aliases, 1, Len(before[g].aliases)) = before[g].aliases
    /\ \A i \in 1..Len(before) : i # g => after[i] = before[i]

\* after differs from before by one record appended at the end
OneRecordAppended(after, before) ==
    /\ Len(after) = Len(before) + 1
    /\ SubSeq(after, 1, Len(before)) = before

\* C35: add_or_update_vendor_alias never removes, renames or reorders a
\* record or an alias: every record and alias of the list before a call is
\* at the same position after it, and the call either appends one alias to
\* exactly one record, or appends one record at the end (both with
\* was_modified = TRUE), or changes nothing (was_modified = FALSE).
C35_GrowsInInsertionOrder ==
    Called =>
        /\ Extends(rec_vendors, rec_call.before)
        /\ IF rec_call.was_modified
           THEN \/ OneRecordAppended(rec_vendors, rec_call.before)
                \/ \E g \in 1..Len(rec_call.before) :
                       OneAliasAppended(rec_vendors, rec_call.before, g)
           ELSE rec_vendors = rec_call.before

\* C35 witness: a call on a list of two records appended a third record
\* after them, and an earlier call had appended an alias to the second.
C35_Witness ==
    /\ Called /\ rec_call.was_modified
    /\ Len(rec_call.before) = 2 /\ Len(rec_vendors) = 3
    /\ SubSeq(rec_vendors, 1, 2) = rec_call.before
    /\ Len(rec_vendors[2].aliases) = 1


(***************************************************************************)
(* Frame of the registry cycle (checked under Spec).                       *)
(***************************************************************************)
\* the step writes the registry file on behalf of task d
WritesFile(d) == reg_writes'[d] # reg_writes[d]

\* C36: a cycle whose reconciler returns was_modified = FALSE writes nothing:
\* its load wrote nothing (a load writes only when it found no file, and
\* then returns the empty registry, on which the reconciler always returns
\* TRUE), its reconcile step leaves the file as it was loaded and goes on
\* without a save; a cycle reaches save_vendors_data exactly when the
\* reconciler changed the registry, and the file is written by no other
\* step of a task.
C36_UnchangedCycleWritesNothing ==
    [][\A d \in Docs :
          /\ (LoadStep(d) /\ (WritesFile(d) \/ vendors_file' # vendors_file)) =>
                 vendors_file.kind = "absent" /\ vendors_data'[d] = <<>>
          /\ (ReconcileStep(d) /\ pc'[d] = "save") =>
                 vendors_data'[d] # vendors_data[d] /\ vendors_file' = vendors_file
          /\ (ReconcileStep(d) /\ pc'[d] \notin {"save", "failed"}) =>
                 /\ vendors_data[d] # <<>>
                 /\ vendors_file.kind = "valid" /\ vendors_file.vendors = vendors_data[d]
                 /\ vendors_file' = vendors_file /\ ~WritesFile(d)
          /\ (WritesFile(d) \/ (vendors_file' # vendors_file /\ lock_holder = d)) =>
                 LoadStep(d) \/ SaveStep(d)]_vars

\* C36 witness: a task is through its registry cycles without a single
\* write, over a file that another task wrote.
C36_Witness ==
    \E d \in Docs :
        /\ pc[d] = "updated" /\ reg_writes[d] = 0 /\ ~save_failed
        /\ vendors_file.kind = "valid" /\ vendors_file.vendors # <<>>
        /\ \E e \in Docs : e # d /\ reg_writes[e] > 0


(***************************************************************************)
(* Colliding filenames (checked under PlaceSpec).                          *)
(***************************************************************************)
\* d finished before e
FinishedBefore(d, e) ==
    \E i, j \in 1..Len(completion) : i < j /\ completion[i] = d /\ completion[j] = e

\* the files of a directory listing under name n
FilesNamed(listing, n) == {f \in listing : f.name = n}

\* d and e were both placed, d before e, under filenames made of one vendor
Collided(d, e) ==
    /\ pc[d] = "placed" /\ pc[e] = "placed" /\ FinishedBefore(d, e)
    /\ FilenameVendor(d) = FilenameVendor(e)

\* some file, in output_dir or at the source path, holds the content of d
ContentPresent(d) ==
    \/ \E f \in out_dir.files : f.content = d
    \/ ~in_output /\ source_present[d]

\* C37: two documents whose filenames are made of the same details are both
\* placed under one filename; output_dir then holds a single file of that
\* name with the content of the one placed last, and with move_file the
\* content of the one placed first is in no file.
C37_CollisionOverwrites ==
    \A d, e \in Docs :
        Collided(d, e) =>
            /\ task_outcome[d].name = task_outcome[e].name
            /\ FilesNamed(out_dir.files, task_outcome[e].name) =
                   {[name |-> task_outcome[e].name, content |-> e]}
            /\ move_file => ~ContentPresent(d)

\* C37 as it holds: colliding documents return one filename; a placing step
\* leaves a single file of that name, holding what the source path of the
\* placed document held before the step, and a file of output_dir goes or
\* changes only in a placing step onto its name or a move away from its
\* path.  What the source path held is the document's own content when the
\* sources lie outside output_dir, and then with move_file the content of
\* the documents placed before under that name is nowhere.
C37_LastPlacementStays ==
    [][/\ \A d \in Docs :
              PlaceStep(d) =>
                  LET n == task_outcome'[d].name
                      earlier == {e \in Docs \ {d} :
                                     pc[e] = "placed" /\ FilenameVendor(e) = FilenameVendor(d)}
                  IN  /\ \A e \in earlier : task_outcome[e].name = n
                      /\ FilesNamed(out_dir'.files, n) =
                             {[name |-> n, content |-> SourceContent(d)]}
                      /\ ~in_output =>
                             /\ SourceContent(d) = d
                             /\ move_file => \A e \in earlier : ~ContentPresent(e)'
       /\ \A f \in out_dir.files :
              f \notin out_dir'.files =>
                  \E d \in Docs :
                      /\ PlaceStep(d)
                      /\ \/ task_outcome'[d].name = f.name
                         \/ move_file /\ in_output /\ Basename(d) = f.name]_vars

\* C37 witness: both files lay in output_dir, the first under the name both
\* were to get; the second was moved over the first, then the first was
\* moved onto itself, and the one file of that name holds the second's
\* content though the first was placed last.
C37_Witness ==
    /\ in_output /\ move_file /\ Collided(2, 1)
    /\ task_outcome[1].name = Basename(1)
    /\ out_dir.files = {[name |-> Basename(1), content |-> 2]}


(***************************************************************************)
(* The filename as a path component (checked under NameSpec).              *)
(***************************************************************************)
\* the characters os.path.join takes for separators, on POSIX and Windows
PathSeparators == {"/", "\\"}

\* C38: whatever the vendor and the category are, strings with '/', '\' or
\* '..' included, the filename made of them holds no path separator, is
\* not empty and ends in ".pdf" (so it is neither "." nor ".."): joined to
\* output_dir it names a direct child of output_dir.
C38_FilenameIsOneComponent ==
    named.done =>
        /\ \A i \in 1..Len(named.filename) : named.filename[i] \notin PathSeparators
        /\ Len(named.filename) > Len(S_pdf)
        /\ SubSeq(named.filename, Len(named.filename) - 3, Len(named.filename)) = S_pdf

\* C38 witness: a name was made for the vendor '../../x' and the category
\* '..\c/d': it begins with 'x-' and holds '-c_d'.
C38_Witness ==
    /\ named.done
    /\ named.inv.vendor = <<".", ".", "/", ".", ".", "/", "x">>
    /\ named.inv.item_category = <<".", ".", "\\", "c", "/", "d">>
    /\ StartsWith(named.filename, <<"x", "-">>)
    /\ \E k \in 1..Len(named.filename) - 3 :
           SubSeq(named.filename, k, k + 3) = <<"-", "c", "_", "d">>


(***************************************************************************)
(* The override in both run modes (checked under TuiSpec).                 *)
(***************************************************************************)
\* C39: started with --folder on an existing directory and
\* --vendor-override V, the program, once past its start, runs the TUI
\* application when --tui is given, and in both modes the processor the
\* documents go through holds V: every placed document has a filename of V.
C39_OverrideInBothModes ==
    (app.st \notin {"none", "parsed"} /\ app.folder = "dir" /\ app.vendor_override # <<>>) =>
        /\ app.tui => app.st = "tui"
        /\ vendor_override = app.vendor_override
        /\ \A d \in Docs :
               pc[d] = "placed" =>
                   StartsWith(task_outcome[d].name,
                              sanitize_filename_part(app.vendor_override) \o <<"-">>)

====
